---- MODULE Spec2Model ----
(***************************************************************************)
(* Verification model of the world visibility subsystem of                 *)
(* gl-core-samples: the intrusive doubly-linked list (linked_list.hpp),    *)
(* and the BSP builder of world_rendering.cpp that is built on it.         *)
(*                                                                         *)
(* Pointers are object ids; NULL is the null pointer.  A dereference of    *)
(* the null pointer sets the flag "fault" (the process is killed) and the  *)
(* interrupted operation performs none of its later writes.                *)
(* The assertions of the source are compiled out: LinkedList<T> asserts    *)
(* node->linked(), a member neither Polygon nor Portal has (they have      *)
(* isLinked()), so the program only builds with NDEBUG.                    *)
(***************************************************************************)
EXTENDS Integers, Sequences, FiniteSets, TLC

\* ------------------------------------------------------------------------
\* Bounds of the model.
\* ------------------------------------------------------------------------
MaxListNodes == 4       \* nodes available to the list-only specification
MaxPolys     == 12      \* polygon pool slots a build may use
MaxBspNodes  == 7       \* BSP node pool slots a build may use
MaxTris      == 3       \* triangles in an input scene
MaxPortals   == 12      \* portal pool slots a build may use
MaxFrames    == 2       \* frames rendered after a build

NULL == 0

PolyIds == 1..MaxPolys
ListIds == 1..MaxBspNodes

PortalIds == 1..MaxPortals

\* The portal lists: BspNode::portals of every node slot, and the local
\* list allPortals of buildPortals.
AllPortals == MaxBspNodes + 1

PortalListIds == 1..AllPortals

VARIABLES
    next,       \* T::next of every list node (polygon)
    prev,       \* T::prev of every list node (polygon)
    head,       \* LinkedList::head of every list (BspNode::polygons)
    count,      \* LinkedList::count of every list
    fault,      \* a null pointer was dereferenced
    model,      \* the sequence each list is meant to hold (specification side)
    lastOp,     \* the last list operation, its argument and its result
    vertexes,   \* RenderData::vertexes (positions only)
    polygons,   \* Polygon::plane, firstVertex, vertexCount of every pool slot
    polygonPoolAlloc,   \* RenderData::polygonPoolAlloc counters
    bspNodes,   \* BspNode fields of every pool slot (its polygon list is list <slot>)
    bspNodePoolAlloc,   \* RenderData::bspNodePoolAlloc counters
    bspRoot, bspLeafCount, bspPartitionCount, bspLeafNodes, bspPartitionNodes,
    g_nPolys,   \* g_nPolysOnPlane, g_nPolysBackSide, g_nPolysFrontSide, g_nPolysSpanning
    pc,         \* where the program is: "start", "bsp", "gather", "built", "crashed"
    stack,      \* pending calls of buildBspTreeRecursive, innermost first
    input,      \* the triangles handed to createFromPolygons / splitTriangle
    trail,      \* what the last step did (specification side)
    bounds,     \* RenderData::bounds
    portals,    \* Portal::plane, verts, id, frontLeaf, backLeaf of every pool slot
    portalMem,  \* Portal::next, prev and the portal lists' head, count
    portalPoolAlloc,    \* RenderData::portalPoolAlloc counters and free list
    bspPortalCount,
    g_nFrameNumber,
    frame,      \* what the last frame did (specification side)
    g_bBuildBspTree,    \* switch: createFromPolygons builds the tree and the portals
    g_bRenderUseBsp     \* switch: frames use the tree

listVars == <<next, prev, head, count, fault, model, lastOp>>

worldVars == <<vertexes, polygons, polygonPoolAlloc, bspNodes, bspNodePoolAlloc,
               bspRoot, bspLeafCount, bspPartitionCount, bspLeafNodes,
               bspPartitionNodes, g_nPolys, pc, stack, input, trail,
               bounds, portals, portalMem, portalPoolAlloc, bspPortalCount,
               g_nFrameNumber, frame, g_bBuildBspTree, g_bRenderUseBsp>>

portalVars == <<bounds, portals, portalMem, portalPoolAlloc>>

flagVars == <<g_bBuildBspTree, g_bRenderUseBsp>>

frameVars == <<bspPortalCount, g_nFrameNumber, frame, flagVars>>

vars == <<listVars, worldVars>>

\* ------------------------------------------------------------------------
\* LinkedList<T>, as functions on the memory m = [next, prev, head, count,
\* fault].  Each write is one step of a LET chain, in the source's order.
\* ------------------------------------------------------------------------
Mem == [next |-> next, prev |-> prev, head |-> head, count |-> count, fault |-> fault]

SetMem(m) ==
    /\ next'  = m.next
    /\ prev'  = m.prev
    /\ head'  = m.head
    /\ count' = m.count
    /\ fault' = m.fault

InitMem ==
    /\ next  = [p \in PolyIds |-> NULL]
    /\ prev  = [p \in PolyIds |-> NULL]
    /\ head  = [l \in ListIds |-> NULL]
    /\ count = [l \in ListIds |-> 0]
    /\ fault = FALSE

Fault(m) == [m EXCEPT !.fault = TRUE]

\* p->next = v
SetNext(m, p, v) ==
    IF m.fault THEN m
    ELSE IF p = NULL THEN Fault(m)
    ELSE [m EXCEPT !.next[p] = v]

\* p->prev = v
SetPrev(m, p, v) ==
    IF m.fault THEN m
    ELSE IF p = NULL THEN Fault(m)
    ELSE [m EXCEPT !.prev[p] = v]

SetHead(m, l, v) == IF m.fault THEN m ELSE [m EXCEPT !.head[l] = v]

AddCount(m, l, d) == IF m.fault THEN m ELSE [m EXCEPT !.count[l] = @ + d]

linked(m, node) == m.prev[node] # NULL /\ m.next[node] # NULL

empty(m, l) == m.count[l] = 0

size(m, l) == m.count[l]

first(m, l) == m.head[l]

push_front(m, l, node) ==
    IF ~empty(m, l)
    THEN IF m.head[l] = NULL THEN Fault(m)
         ELSE LET hd   == m.head[l]
                  tail == m.prev[hd]
                  m1   == SetNext(m, node, hd)
                  m2   == SetPrev(m1, hd, node)
                  m3   == SetPrev(m2, node, tail)
                  m4   == SetHead(m3, l, node)
              IN  AddCount(m4, l, 1)
    ELSE LET m1 == SetHead(m, l, node)
             m2 == SetPrev(m1, node, node)
             m3 == SetNext(m2, node, node)
         IN  AddCount(m3, l, 1)

\* A push_back that leaves the old tail's next pointing at head.
push_back_StaleTail(m, l, node) ==
    IF ~empty(m, l)
    THEN IF m.head[l] = NULL THEN Fault(m)
         ELSE LET hd   == m.head[l]
                  tail == m.prev[hd]
                  m1   == SetPrev(m, node, tail)
                  m3   == SetNext(m1, node, hd)
                  m4   == SetPrev(m3, hd, node)
              IN  AddCount(m4, l, 1)
    ELSE LET m1 == SetHead(m, l, node)
             m2 == SetPrev(m1, node, node)
             m3 == SetNext(m2, node, node)
         IN  AddCount(m3, l, 1)

push_back(m, l, node) ==
    IF ~empty(m, l)
    THEN IF m.head[l] = NULL THEN Fault(m)
         ELSE LET hd   == m.head[l]
                  tail == m.prev[hd]
                  m1   == SetPrev(m, node, tail)
                  m2   == SetNext(m1, tail, node)
                  m3   == SetNext(m2, node, hd)
                  m4   == SetPrev(m3, hd, node)
              IN  AddCount(m4, l, 1)
    ELSE LET m1 == SetHead(m, l, node)
             m2 == SetPrev(m1, node, node)
             m3 == SetNext(m2, node, node)
         IN  AddCount(m3, l, 1)

\* pop_front and pop_back return [mem, node]: the memory after the call and
\* the removed node (NULL for an empty list).
pop_front(m, l) ==
    IF empty(m, l) THEN [mem |-> m, node |-> NULL]
    ELSE IF m.head[l] = NULL THEN [mem |-> Fault(m), node |-> NULL]
    ELSE LET removedNode == m.head[l]
             tail == m.prev[removedNode]
             m1   == SetHead(m, l, m.next[removedNode])
             m2   == SetPrev(m1, m1.head[l], tail)
             m3   == AddCount(m2, l, -1)
             m4   == SetPrev(m3, removedNode, NULL)
             m5   == SetNext(m4, removedNode, NULL)
         IN  [mem |-> m5, node |-> IF m5.fault THEN NULL ELSE removedNode]

pop_back(m, l) ==
    IF empty(m, l) THEN [mem |-> m, node |-> NULL]
    ELSE IF m.head[l] = NULL \/ m.prev[m.head[l]] = NULL
         THEN [mem |-> Fault(m), node |-> NULL]
    ELSE LET hd   == m.head[l]
             removedNode == m.prev[hd]
             tail == m.prev[hd]
             m1   == SetPrev(m, hd, m.prev[tail])
             m2   == SetNext(m1, m1.prev[tail], hd)
             m3   == AddCount(m2, l, -1)
             m4   == SetPrev(m3, removedNode, NULL)
             m5   == SetNext(m4, removedNode, NULL)
         IN  [mem |-> m5, node |-> IF m5.fault THEN NULL ELSE removedNode]

remove(m, l, node) ==
    IF m.head[l] = NULL THEN Fault(m)
    ELSE IF node = m.head[l] THEN pop_front(m, l).mem
    ELSE IF node = m.prev[m.head[l]] THEN pop_back(m, l).mem
    ELSE LET nodePrev == m.prev[node]
             nodeNext == m.next[node]
             m1 == SetNext(m, nodePrev, nodeNext)
             m2 == SetPrev(m1, nodeNext, nodePrev)
             m3 == SetPrev(m2, node, NULL)
             m4 == SetNext(m3, node, NULL)
         IN  AddCount(m4, l, -1)

\* The loop "while (count--)" of clear(), at node: the test takes one from
\* count whether or not it lets the loop run.
RECURSIVE ClearLoop(_, _, _)
ClearLoop(m, l, node) ==
    IF m.fault THEN m
    ELSE IF m.count[l] = 0 THEN AddCount(m, l, -1)
    ELSE IF node = NULL THEN Fault(m)
    ELSE ClearLoop(SetNext(SetPrev(AddCount(m, l, -1), node, NULL), node, NULL),
                   l, m.next[node])

clear(m, l) == SetHead(ClearLoop(m, l, m.head[l]), l, NULL)

\* The nodes a loop "for (i = size(); i--; p = p->next)" started at first()
\* visits: n steps along next from p.  A NULL reached before the last step
\* appears in the result (the loop body would dereference it).
RECURSIVE Walk(_, _, _)
Walk(m, p, n) ==
    IF n = 0 THEN <<>>
    ELSE IF p = NULL THEN <<NULL>>
    ELSE <<p>> \o Walk(m, m.next[p], n - 1)

Traverse(m, l) == Walk(m, first(m, l), size(m, l))

Range(s) == {s[i] : i \in DOMAIN s}

\* ------------------------------------------------------------------------
\* Geometry.  A Vec3 is a tuple of three integers: the model's inputs are
\* triangles with integer coordinates lying in axis-parallel planes, for
\* which normalize() and the edge intersections are exact.  A step that
\* would have to round sets "inexact", and the run is not followed further.
\* ------------------------------------------------------------------------
EpsilonInv == 1000      \* Plane::Epsilon = 0.001f = 1 / EpsilonInv

OnPlane   == "OnPlane"
BackSide  == "BackSide"
FrontSide == "FrontSide"
Spanning  == "Spanning"

Vec3(x, y, z) == <<x, y, z>>

dot(a, b) == a[1] * b[1] + a[2] * b[2] + a[3] * b[3]

cross(a, b) ==
    <<a[2] * b[3] - a[3] * b[2], a[3] * b[1] - a[1] * b[3], a[1] * b[2] - a[2] * b[1]>>

VecSub(a, b) == <<a[1] - b[1], a[2] - b[2], a[3] - b[3]>>

Abs(x) == IF x < 0 THEN -x ELSE x

\* x / y rounded toward zero (y # 0), and whether the quotient is exact.
Quot(x, y) ==
    LET q == Abs(x) \div Abs(y)
    IN  IF (x < 0) = (y < 0) THEN q ELSE -q

IsExactQuot(x, y) == y # 0 /\ Abs(x) % Abs(y) = 0

\* length(v): the integer square root of dot(v, v).
length(v) ==
    LET n == dot(v, v)
    IN  CHOOSE r \in 0..(Abs(v[1]) + Abs(v[2]) + Abs(v[3])) :
            r * r <= n /\ (r + 1) * (r + 1) > n

IsExactLength(v) == length(v) * length(v) = dot(v, v)

normalize(v) ==
    LET len == length(v)
    IN  IF len = 0 THEN v ELSE <<Quot(v[1], len), Quot(v[2], len), Quot(v[3], len)>>

IsExactNormalize(v) ==
    /\ length(v) > 0
    /\ IsExactLength(v)
    /\ \A i \in 1..3 : IsExactQuot(v[i], length(v))

\* Plane::fromPoints (with recalculateDistance(point1)).
fromPoints(point1, point2, point3) ==
    LET normal == normalize(cross(VecSub(point2, point1), VecSub(point3, point1)))
    IN  [normal |-> normal, distance |-> -dot(point1, normal)]

IsExactPlane(point1, point2, point3) ==
    IsExactNormalize(cross(VecSub(point2, point1), VecSub(point3, point1)))

ZeroPlane == [normal |-> <<0, 0, 0>>, distance |-> 0]

getDistanceTo(plane, point) == dot(point, plane.normal) + plane.distance

\* Plane::classifyPoint: d > Epsilon, d < -Epsilon, else on the plane.
classifyPoint(plane, point) ==
    LET d == getDistanceTo(plane, point)
    IN  IF d * EpsilonInv > 1 THEN FrontSide
        ELSE IF d * EpsilonInv < -1 THEN BackSide
        ELSE OnPlane

\* The vertex positions of a polygon, from the world's vertex array
\* (firstVertex is 0-based as in the source, sequences are 1-based).
PolyVerts(w, poly) ==
    [v \in 1..w.polygons[poly].vertexCount |-> w.vertexes[w.polygons[poly].firstVertex + v]]

\* Plane::classifyTriangleVerts: one classification per vertex.
classifyTriangleVerts(plane, w, poly) ==
    LET pts == PolyVerts(w, poly)
    IN  [v \in DOMAIN pts |-> classifyPoint(plane, pts[v])]

HowMany(cls, side) == Cardinality({v \in DOMAIN cls : cls[v] = side})

\* Plane::classifyPolygon.
classifyPolygon(plane, w, poly) ==
    LET cls == classifyTriangleVerts(plane, w, poly)
        n   == w.polygons[poly].vertexCount
    IN  IF HowMany(cls, OnPlane) = n THEN OnPlane
        ELSE IF HowMany(cls, BackSide) = n THEN BackSide
        ELSE IF HowMany(cls, FrontSide) = n THEN FrontSide
        ELSE IF HowMany(cls, BackSide) > 0 /\ HowMany(cls, FrontSide) > 0 THEN Spanning
        ELSE IF HowMany(cls, BackSide) > 0 THEN BackSide
        ELSE FrontSide

\* calcEdgeIntersection: pointA + (pointB - pointA) * t,
\* t = -distance(pointA) / dot(normal, pointB - pointA).
calcEdgeIntersection(pointA, pointB, plane) ==
    LET diff == VecSub(pointB, pointA)
        num  == -getDistanceTo(plane, pointA)
        den  == dot(plane.normal, diff)
    IN  [i \in 1..3 |-> pointA[i] + Quot(diff[i] * num, den)]

IsExactIntersection(pointA, pointB, plane) ==
    LET diff == VecSub(pointB, pointA)
        num  == -getDistanceTo(plane, pointA)
        den  == dot(plane.normal, diff)
    IN  \A i \in 1..3 : IsExactQuot(diff[i] * num, den)

\* ------------------------------------------------------------------------
\* RenderData.  The operators below work on the record w of the world's
\* state and return the record after the call.  w.overflow says the call
\* needed more pool slots than the model has; w.inexact says a coordinate
\* or a normal could not be represented exactly.  The model follows a run
\* up to the first call that overflows or is inexact.
\* ------------------------------------------------------------------------
PolygonPoolGranularity == 256
BspNodePoolGranularity == 256
InitialAbsDifference == 1000000000

EmptyPool == [allocCount |-> 0, objectCount |-> 0, poolBlockCount |-> 0]

\* Pool::allocate, for a pool none of whose objects was deallocated: the
\* free list is empty exactly when every slot of every block is in use.
PoolAllocate(pool, granularity) ==
    [allocCount     |-> pool.allocCount + 1,
     objectCount    |-> pool.objectCount + 1,
     poolBlockCount |-> IF pool.objectCount = pool.poolBlockCount * granularity
                        THEN pool.poolBlockCount + 1 ELSE pool.poolBlockCount]

NewPolygon == [plane |-> ZeroPlane, firstVertex |-> 0, vertexCount |-> 0]

NewBspNode ==
    [partition |-> ZeroPlane, frontNode |-> NULL, backNode |-> NULL,
     id |-> 0, visFrame |-> 0, isLeaf |-> FALSE]

W == [mem |-> Mem, vertexes |-> vertexes, polygons |-> polygons,
      polygonPoolAlloc |-> polygonPoolAlloc, bspNodes |-> bspNodes,
      bspNodePoolAlloc |-> bspNodePoolAlloc, bspLeafCount |-> bspLeafCount,
      bspPartitionCount |-> bspPartitionCount, g_nPolys |-> g_nPolys,
      bounds |-> bounds, portals |-> portals, portalMem |-> portalMem,
      portalPoolAlloc |-> portalPoolAlloc,
      overflow |-> FALSE, inexact |-> FALSE, onPlane |-> {},
      newPortal |-> NULL, frontPortal |-> NULL, backPortal |-> NULL,
      spanning |-> FALSE, tooManyVerts |-> FALSE, singleCount |-> 0, extra |-> {}]

SetWorld(w) ==
    /\ SetMem(w.mem)
    /\ vertexes' = w.vertexes
    /\ polygons' = w.polygons
    /\ polygonPoolAlloc' = w.polygonPoolAlloc
    /\ bspNodes' = w.bspNodes
    /\ bspNodePoolAlloc' = w.bspNodePoolAlloc
    /\ bspLeafCount' = w.bspLeafCount
    /\ bspPartitionCount' = w.bspPartitionCount
    /\ g_nPolys' = w.g_nPolys
    /\ bounds' = w.bounds
    /\ portals' = w.portals
    /\ portalMem' = w.portalMem
    /\ portalPoolAlloc' = w.portalPoolAlloc

Stopped(w) == w.mem.fault \/ w.overflow

\* RenderData::allocPolygon; the new polygon is slot LastPolygon(result).
allocPolygon(w) ==
    IF Stopped(w) THEN w
    ELSE IF w.polygonPoolAlloc.allocCount >= MaxPolys THEN [w EXCEPT !.overflow = TRUE]
    ELSE LET slot == w.polygonPoolAlloc.allocCount + 1
         IN  [w EXCEPT !.polygonPoolAlloc = PoolAllocate(@, PolygonPoolGranularity),
                       !.polygons[slot] = NewPolygon,
                       !.mem.next[slot] = NULL,
                       !.mem.prev[slot] = NULL]

LastPolygon(w) == w.polygonPoolAlloc.allocCount

\* RenderData::allocBspNode; the new node is slot LastBspNode(result).
allocBspNode(w) ==
    IF Stopped(w) THEN w
    ELSE IF w.bspNodePoolAlloc.allocCount >= MaxBspNodes THEN [w EXCEPT !.overflow = TRUE]
    ELSE LET slot == w.bspNodePoolAlloc.allocCount + 1
         IN  [w EXCEPT !.bspNodePoolAlloc = PoolAllocate(@, BspNodePoolGranularity),
                       !.bspNodes[slot] = NewBspNode,
                       !.mem.head[slot] = NULL,
                       !.mem.count[slot] = 0]

LastBspNode(w) == w.bspNodePoolAlloc.allocCount

PushBackPolygon(w, l, poly) ==
    IF Stopped(w) THEN w ELSE [w EXCEPT !.mem = push_back(@, l, poly)]

\* push_back of the polygon allocated last.
PushLastPolygon(w, l) == PushBackPolygon(w, l, LastPolygon(w))

\* The last vertex of a polygon: pointA before the loop of splitTriangle.
LastVertex(w, poly) ==
    w.vertexes[w.polygons[poly].firstVertex + w.polygons[poly].vertexCount]

\* The lambda makeTriangle of splitTriangle: a new polygon over three new
\* vertices, appended to the vertex array.
makeTriangle(w, a, b, c) ==
    LET Construct(w1) ==
            IF Stopped(w1) THEN w1
            ELSE [w1 EXCEPT !.polygons[LastPolygon(w1)] =
                                [plane       |-> fromPoints(a, b, c),
                                 firstVertex |-> Len(w.vertexes),
                                 vertexCount |-> 3],
                            !.vertexes = @ \o <<a, b, c>>,
                            !.inexact  = @ \/ ~IsExactPlane(a, b, c)]
    IN  Construct(allocPolygon(w))

\* One turn of the loop of splitTriangle: the edge from pointA to pointB.
SplitEdge(partition, pointA, pointB, acc) ==
    LET Edge(sideA, sideB, intersectionPoint, rounded) ==
            IF sideB = FrontSide
            THEN IF sideA = BackSide
                 THEN [frontPoints |-> acc.frontPoints \o <<intersectionPoint, pointB>>,
                       backPoints  |-> Append(acc.backPoints, intersectionPoint),
                       inexact     |-> acc.inexact \/ rounded]
                 ELSE [acc EXCEPT !.frontPoints = Append(@, pointB)]
            ELSE IF sideB = BackSide
            THEN IF sideA = FrontSide
                 THEN [frontPoints |-> Append(acc.frontPoints, intersectionPoint),
                       backPoints  |-> acc.backPoints \o <<intersectionPoint, pointB>>,
                       inexact     |-> acc.inexact \/ rounded]
                 ELSE [acc EXCEPT !.backPoints = Append(@, pointB)]
            ELSE [acc EXCEPT !.frontPoints = Append(@, pointB),
                             !.backPoints  = Append(@, pointB)]
    IN  Edge(classifyPoint(partition, pointA), classifyPoint(partition, pointB),
             calcEdgeIntersection(pointA, pointB, partition),
             ~IsExactIntersection(pointA, pointB, partition))

\* The loop of splitTriangle over the vertices v, with pointA the previous
\* vertex: the points of the front and of the back piece.
RECURSIVE SplitPoints(_, _, _, _, _)
SplitPoints(pts, partition, v, pointA, acc) ==
    IF v > Len(pts) THEN acc
    ELSE SplitPoints(pts, partition, v + 1, pts[v],
                     SplitEdge(partition, pointA, pts[v], acc))

\* A splitTriangle that makes one triangle of a four-point front piece.
splitTriangle_OneFront(w, triangleToSplit, partition, outFrontList, outBackList) ==
    LET Emit(sp) ==
            LET w0 == [w EXCEPT !.inexact = @ \/ sp.inexact]
                ToFront(x, i, j, k) ==
                    PushLastPolygon(makeTriangle(x, sp.frontPoints[i], sp.frontPoints[j],
                                                 sp.frontPoints[k]), outFrontList)
                ToBack(x, i, j, k) ==
                    PushLastPolygon(makeTriangle(x, sp.backPoints[i], sp.backPoints[j],
                                                 sp.backPoints[k]), outBackList)
            IN  IF Len(sp.frontPoints) >= 3 /\ Len(sp.backPoints) >= 3
                THEN ToBack(ToFront(w0, 1, 2, 3), 1, 2, 3)
                ELSE IF Len(sp.backPoints) > Len(sp.frontPoints)
                THEN ToBack(w0, 1, 2, 3)
                ELSE ToFront(w0, 1, 2, 3)
    IN  Emit(SplitPoints(PolyVerts(w, triangleToSplit), partition, 1,
                         LastVertex(w, triangleToSplit),
                         [frontPoints |-> <<>>, backPoints |-> <<>>, inexact |-> FALSE]))

\* splitTriangle(world, triangleToSplit, partition, outFrontList, outBackList).
splitTriangle(w, triangleToSplit, partition, outFrontList, outBackList) ==
    LET Emit(sp) ==
            LET frontCount == Len(sp.frontPoints)
                backCount  == Len(sp.backPoints)
                w0 == [w EXCEPT !.inexact = @ \/ sp.inexact]
                ToFront(x, i, j, k) ==
                    PushLastPolygon(makeTriangle(x, sp.frontPoints[i], sp.frontPoints[j],
                                                 sp.frontPoints[k]), outFrontList)
                ToBack(x, i, j, k) ==
                    PushLastPolygon(makeTriangle(x, sp.backPoints[i], sp.backPoints[j],
                                                 sp.backPoints[k]), outBackList)
            IN  IF frontCount = 4
                THEN ToBack(ToFront(ToFront(w0, 1, 2, 3), 1, 3, 4), 1, 2, 3)
                ELSE IF backCount = 4
                THEN ToBack(ToBack(ToFront(w0, 1, 2, 3), 1, 2, 3), 1, 3, 4)
                ELSE IF frontCount = 3 /\ backCount = 3
                THEN ToBack(ToFront(w0, 1, 2, 3), 1, 2, 3)
                ELSE IF backCount > frontCount
                THEN ToBack(w0, 1, 2, 3)
                ELSE ToFront(w0, 1, 2, 3)
    IN  Emit(SplitPoints(PolyVerts(w, triangleToSplit), partition, 1,
                         LastVertex(w, triangleToSplit),
                         [frontPoints |-> <<>>, backPoints |-> <<>>, inexact |-> FALSE]))

\* The inner loops of selectPartitionfromList: the vertices of the polygons
\* of list (a sequence of polygons) counted in front of and behind partition.
\* A vertex on the plane counts by the side of its polygon's normal.
VertexSide(w, partition, poly, cls) ==
    IF cls = BackSide THEN BackSide
    ELSE IF cls = FrontSide THEN FrontSide
    ELSE IF classifyPoint(partition, w.polygons[poly].plane.normal) = BackSide
         THEN BackSide
         ELSE FrontSide

RECURSIVE CountSide(_, _, _, _)
CountSide(w, partition, list, side) ==
    IF list = <<>> THEN 0
    ELSE LET cls == classifyTriangleVerts(partition, w, Head(list))
         IN  Cardinality({c \in 1..3 : VertexSide(w, partition, Head(list), cls[c]) = side})
             + CountSide(w, partition, Tail(list), side)

\* The outer loop of selectPartitionfromList over the candidates list[i..].
RECURSIVE SelectLoop(_, _, _, _)
SelectLoop(w, list, i, st) ==
    IF i > Len(list) THEN st
    ELSE LET Candidate(potentialPartition, frontCount, backCount) ==
                 LET better == Abs(frontCount - backCount) < st.absDifference
                 IN  [absDifference |-> IF better THEN Abs(frontCount - backCount)
                                        ELSE st.absDifference,
                      bestPartition |-> IF better THEN potentialPartition
                                        ELSE st.bestPartition,
                      notSplitCount |-> IF frontCount = 0 \/ backCount = 0
                                        THEN st.notSplitCount + 1 ELSE st.notSplitCount]
         IN  SelectLoop(w, list, i + 1,
                 Candidate(list[i],
                           CountSide(w, w.polygons[list[i]].plane, list, FrontSide),
                           CountSide(w, w.polygons[list[i]].plane, list, BackSide)))

\* A selection that takes the first candidate whenever some plane splits.
SelectFromWalk_First(w, list) ==
    LET Result(st) == IF st.notSplitCount = Len(list) THEN NULL ELSE list[1]
    IN  Result(SelectLoop(w, list, 1,
                   [absDifference |-> InitialAbsDifference, bestPartition |-> NULL,
                    notSplitCount |-> 0]))

\* selectPartitionfromList(world, polygonList), for the polygons the two
\* loops visit (a walk of size() steps from first()): the chosen polygon,
\* or NULL.
SelectFromWalk(w, list) ==
    LET Result(st) == IF st.notSplitCount = Len(list) THEN NULL ELSE st.bestPartition
    IN  Result(SelectLoop(w, list, 1,
                   [absDifference |-> InitialAbsDifference, bestPartition |-> NULL,
                    notSplitCount |-> 0]))

\* The walk dereferences every node it visits.
WalkFaults(list) == NULL \in Range(list)

selectPartitionfromList(w, polygonList) ==
    LET Select(list) == IF WalkFaults(list) THEN NULL ELSE SelectFromWalk(w, list)
    IN  Select(Traverse(w.mem, polygonList))

\* Where buildBspTreeRecursive puts a polygon that is on the partition plane.
OnPlaneChild(partition, polyNormal) ==
    IF classifyPoint(partition, polyNormal) = BackSide THEN "back" ELSE "front"

Bump(w, side) == [w EXCEPT !.g_nPolys[side] = @ + 1]

\* A loop body that files the polygons behind the plane under the front child.
ClassifyOne_BackToFront(w, node, poly) ==
    LET partition == w.bspNodes[node].partition
        backNode  == w.bspNodes[node].backNode
        frontNode == w.bspNodes[node].frontNode
        PutOnPlane(child) ==
            [Bump(PushBackPolygon(w, IF child = "back" THEN backNode ELSE frontNode, poly),
                  OnPlane)
                EXCEPT !.onPlane = @ \cup
                    {[poly |-> poly, normal |-> w.polygons[poly].plane.normal,
                      partition |-> partition, child |-> child]}]
        Put(side) ==
            IF side = OnPlane
            THEN PutOnPlane(OnPlaneChild(partition, w.polygons[poly].plane.normal))
            ELSE IF side = BackSide
            THEN Bump(PushBackPolygon(w, frontNode, poly), BackSide)
            ELSE IF side = FrontSide
            THEN Bump(PushBackPolygon(w, frontNode, poly), FrontSide)
            ELSE Bump(splitTriangle(w, poly, partition, frontNode, backNode), Spanning)
    IN  Put(classifyPolygon(partition, w, poly))

\* One turn of the while loop of buildBspTreeRecursive for the popped poly.
ClassifyOne(w, node, poly) ==
    LET partition == w.bspNodes[node].partition
        backNode  == w.bspNodes[node].backNode
        frontNode == w.bspNodes[node].frontNode
        PutOnPlane(child) ==
            [Bump(PushBackPolygon(w, IF child = "back" THEN backNode ELSE frontNode, poly),
                  OnPlane)
                EXCEPT !.onPlane = @ \cup
                    {[poly |-> poly, normal |-> w.polygons[poly].plane.normal,
                      partition |-> partition, child |-> child]}]
        Put(side) ==
            IF side = OnPlane
            THEN PutOnPlane(OnPlaneChild(partition, w.polygons[poly].plane.normal))
            ELSE IF side = BackSide
            THEN Bump(PushBackPolygon(w, backNode, poly), BackSide)
            ELSE IF side = FrontSide
            THEN Bump(PushBackPolygon(w, frontNode, poly), FrontSide)
            ELSE Bump(splitTriangle(w, poly, partition, frontNode, backNode), Spanning)
    IN  Put(classifyPolygon(partition, w, poly))

\* while ((poly = node->polygons.pop_front()) != nullptr) { ... }
RECURSIVE ClassifyLoop(_, _)
ClassifyLoop(w, node) ==
    IF Stopped(w) THEN w
    ELSE LET Popped(r) ==
                 IF r.node = NULL THEN [w EXCEPT !.mem = r.mem]
                 ELSE ClassifyLoop(ClassifyOne([w EXCEPT !.mem = r.mem], node, r.node), node)
         IN  Popped(pop_front(w.mem, node))

\* buildBspTreeRecursive(world, node) up to its two recursive calls.
buildBspTreeNode(w, node) ==
    LET MakeLeaf ==
            [w EXCEPT !.bspNodes[node].isLeaf = TRUE,
                      !.bspNodes[node].id = w.bspLeafCount + 1,
                      !.bspLeafCount = @ + 1]
        MakePartition(partitionPolygon) ==
            [w EXCEPT !.bspNodes[node].isLeaf = FALSE,
                      !.bspNodes[node].id = w.bspPartitionCount + 1,
                      !.bspPartitionCount = @ + 1,
                      !.bspNodes[node].partition = w.polygons[partitionPolygon].plane]
        SetBackNode(w2) ==
            IF Stopped(w2) THEN w2
            ELSE [w2 EXCEPT !.bspNodes[node].backNode = LastBspNode(w2)]
        SetFrontNode(w4) ==
            IF Stopped(w4) THEN w4
            ELSE [w4 EXCEPT !.bspNodes[node].frontNode = LastBspNode(w4)]
        Build(partitionPolygon) ==
            IF partitionPolygon = NULL THEN MakeLeaf
            ELSE ClassifyLoop(
                     SetFrontNode(allocBspNode(
                         SetBackNode(allocBspNode(MakePartition(partitionPolygon))))),
                     node)
    IN  IF WalkFaults(Traverse(w.mem, node)) THEN [w EXCEPT !.mem = Fault(@)]
        ELSE Build(selectPartitionfromList(w, node))

\* A gathering that does not descend into the back children.
RECURSIVE gatherBspNodeLists_FrontOnly(_, _, _, _)
gatherBspNodeLists_FrontOnly(nodes, node, out, d) ==
    IF d = 0 \/ node = NULL THEN out
    ELSE IF nodes[node].isLeaf
    THEN [out EXCEPT !.leaves = Append(@, node)]
    ELSE gatherBspNodeLists_FrontOnly(nodes, nodes[node].frontNode,
                                      [out EXCEPT !.partitions = Append(@, node)], d - 1)

\* gatherBspNodeLists(node, outPartitionNodes, outLeafNodes): the two
\* vectors after the call, [partitions, leaves].  The tree has at most
\* MaxBspNodes nodes, which bounds the depth d of the recursion.
RECURSIVE gatherBspNodeLists(_, _, _, _)
gatherBspNodeLists(nodes, node, out, d) ==
    IF d = 0 \/ node = NULL THEN out
    ELSE IF nodes[node].isLeaf
    THEN [out EXCEPT !.leaves = Append(@, node)]
    ELSE LET o1 == [out EXCEPT !.partitions = Append(@, node)]
             o2 == gatherBspNodeLists(nodes, nodes[node].frontNode, o1, d - 1)
         IN  gatherBspNodeLists(nodes, nodes[node].backNode, o2, d - 1)

\* ------------------------------------------------------------------------
\* Portals.  A portal list is a LinkedList<Portal>: the operators of
\* LinkedList<T> above, applied to the memory w.portalMem.
\* ------------------------------------------------------------------------
PortalMaxVerts == 8
PortalPoolGranularity == 64

NewPortal ==
    [plane |-> ZeroPlane, verts |-> <<>>, id |-> 0, frontLeaf |-> NULL, backLeaf |-> NULL]

\* Pool<Portal>: freeList holds the slots given back, last freed first;
\* fresh is the number of slots handed out for the first time.
EmptyPortalPool ==
    [allocCount |-> 0, objectCount |-> 0, poolBlockCount |-> 0, fresh |-> 0,
     freeList |-> <<>>]

InitPortalMem ==
    [next  |-> [p \in PortalIds |-> NULL],
     prev  |-> [p \in PortalIds |-> NULL],
     head  |-> [l \in PortalListIds |-> NULL],
     count |-> [l \in PortalListIds |-> 0],
     fault |-> FALSE]

ZeroBounds == [mins |-> <<0, 0, 0>>, maxs |-> <<0, 0, 0>>]

InitPortals ==
    /\ bounds = ZeroBounds
    /\ portals = [p \in PortalIds |-> NewPortal]
    /\ portalMem = InitPortalMem
    /\ portalPoolAlloc = EmptyPortalPool
    /\ bspPortalCount = 0
    /\ g_nFrameNumber = 0
    /\ frame = [op |-> "none"]
    /\ g_bBuildBspTree = TRUE
    /\ g_bRenderUseBsp = TRUE

PStopped(w) == Stopped(w) \/ w.portalMem.fault \/ w.tooManyVerts

\* RenderData::allocPortal: Pool::allocate and construct(); the new portal
\* is slot w.newPortal of the result.
allocPortal(w) ==
    LET pool == w.portalPoolAlloc
        Take(slot, pool1) ==
            [w EXCEPT !.portalPoolAlloc = [pool1 EXCEPT !.allocCount = @ + 1,
                                                        !.objectCount = @ + 1],
                      !.portals[slot] = NewPortal,
                      !.portalMem.next[slot] = NULL,
                      !.portalMem.prev[slot] = NULL,
                      !.newPortal = slot]
    IN  IF PStopped(w) THEN w
        ELSE IF pool.freeList # <<>>
        THEN Take(Head(pool.freeList), [pool EXCEPT !.freeList = Tail(@)])
        ELSE IF pool.fresh >= MaxPortals THEN [w EXCEPT !.overflow = TRUE]
        ELSE Take(pool.fresh + 1,
                  [pool EXCEPT !.fresh = @ + 1,
                               !.poolBlockCount =
                                   IF pool.fresh = pool.poolBlockCount * PortalPoolGranularity
                                   THEN @ + 1 ELSE @])

\* RenderData::freePortal: Pool::deallocate.
freePortal(w, portal) ==
    IF PStopped(w) \/ portal = NULL THEN w
    ELSE [w EXCEPT !.portalPoolAlloc.freeList = <<portal>> \o @,
                   !.portalPoolAlloc.objectCount = @ - 1]

\* RenderData::clonePortal.
clonePortal(w, copy) ==
    LET Copy(w1) ==
            IF PStopped(w1) THEN w1
            ELSE [w1 EXCEPT !.portals[w1.newPortal] =
                                [w1.portals[copy] EXCEPT !.frontLeaf = NULL,
                                                         !.backLeaf = NULL]]
    IN  Copy(allocPortal(w))

PushBackPortal(w, l, portal) ==
    IF PStopped(w) THEN w ELSE [w EXCEPT !.portalMem = push_back(@, l, portal)]

RemovePortal(w, l, portal) ==
    IF PStopped(w) THEN w ELSE [w EXCEPT !.portalMem = remove(@, l, portal)]

PortalFault(w) == [w EXCEPT !.portalMem.fault = TRUE]

\* Plane::classifyPoints.
classifyPoints(plane, points) ==
    LET cls == [v \in DOMAIN points |-> classifyPoint(plane, points[v])]
        n   == Len(points)
    IN  IF HowMany(cls, OnPlane) = n THEN OnPlane
        ELSE IF HowMany(cls, BackSide) = n THEN BackSide
        ELSE IF HowMany(cls, FrontSide) = n THEN FrontSide
        ELSE IF HowMany(cls, BackSide) > 0 /\ HowMany(cls, FrontSide) > 0 THEN Spanning
        ELSE IF HowMany(cls, BackSide) > 0 THEN BackSide
        ELSE FrontSide

classifyPortal(portal, partition) == classifyPoints(partition, portal.verts)

Negate(v) == <<-v[1], -v[2], -v[3]>>

classifyInvertedPortal(portal, partition) ==
    LET Inverted(side) ==
            IF side = OnPlane THEN classifyPoint(partition, Negate(portal.plane.normal))
            ELSE side
    IN  Inverted(classifyPoints(partition, portal.verts))

\* RenderData::computeBounds.
Min(S) == CHOOSE x \in S : \A y \in S : x <= y

Max(S) == CHOOSE x \in S : \A y \in S : x >= y

computeBounds(vs) ==
    IF vs = <<>> THEN ZeroBounds
    ELSE [mins |-> [a \in 1..3 |-> Min({vs[i][a] : i \in DOMAIN vs})],
          maxs |-> [a \in 1..3 |-> Max({vs[i][a] : i \in DOMAIN vs})]]

\* x / y as makeLargePortal divides; a division by zero is not
\* representable (the run is not followed further).
SafeQuot(x, y) == IF y = 0 THEN 0 ELSE Quot(x, y)

\* makeLargePortal(worldBounds, partition, outPortal): the four vertices,
\* the plane, and whether every coordinate is exact.
makeLargePortal(worldBounds, partition) ==
    LET normal   == partition.normal
        distance == partition.distance
        mins     == worldBounds.mins
        maxs     == worldBounds.maxs
        Shape(vs, exact) ==
            [verts   |-> vs,
             plane   |-> fromPoints(vs[1], vs[2], vs[3]),
             inexact |-> ~exact \/ ~IsExactPlane(vs[1], vs[2], vs[3])]
        NumX(y, z) == -(normal[2] * y + normal[3] * z + distance)
        NumY(x, z) == -(normal[1] * x + normal[3] * z + distance)
        NumZ(x, y) == -(normal[1] * x + normal[2] * y + distance)
        YZ(c) == Shape([v \in 1..4 |-> <<SafeQuot(NumX(c[v][1], c[v][2]), normal[1]),
                                         c[v][1], c[v][2]>>],
                       \A v \in 1..4 : IsExactQuot(NumX(c[v][1], c[v][2]), normal[1]))
        XZ(c) == Shape([v \in 1..4 |-> <<c[v][1],
                                         SafeQuot(NumY(c[v][1], c[v][2]), normal[2]),
                                         c[v][2]>>],
                       \A v \in 1..4 : IsExactQuot(NumY(c[v][1], c[v][2]), normal[2]))
        XY(c) == Shape([v \in 1..4 |-> <<c[v][1], c[v][2],
                                         SafeQuot(NumZ(c[v][1], c[v][2]), normal[3])>>],
                       \A v \in 1..4 : IsExactQuot(NumZ(c[v][1], c[v][2]), normal[3]))
    IN  IF Abs(normal[1]) > Abs(normal[2]) /\ Abs(normal[1]) > Abs(normal[3])
        THEN YZ(<< <<mins[2], maxs[3]>>, <<mins[2], mins[3]>>,
                   <<maxs[2], mins[3]>>, <<maxs[2], maxs[3]>> >>)
        ELSE IF Abs(normal[2]) > Abs(normal[1]) /\ Abs(normal[2]) > Abs(normal[3])
        THEN XZ(<< <<mins[1], maxs[3]>>, <<maxs[1], maxs[3]>>,
                   <<maxs[1], mins[3]>>, <<mins[1], mins[3]>> >>)
        ELSE XY(<< <<mins[1], mins[2]>>, <<maxs[1], mins[2]>>,
                   <<maxs[1], maxs[2]>>, <<mins[1], maxs[2]>> >>)

\* splitPortal(portalToSplit, partition, outFrontPortal, outBackPortal,
\* outPlaneSide): whether the portal was split, the side, and the points of
\* the two pieces.
splitPortal(portalToSplit, partition) ==
    LET Out(side, sp) ==
            [split |-> TRUE, side |-> side, frontPoints |-> sp.frontPoints,
             backPoints |-> sp.backPoints, inexact |-> sp.inexact]
        Result(side) ==
            IF side # Spanning
            THEN [split |-> FALSE, side |-> side, frontPoints |-> <<>>,
                  backPoints |-> <<>>, inexact |-> FALSE]
            ELSE Out(side, SplitPoints(portalToSplit.verts, partition, 1,
                                       portalToSplit.verts[Len(portalToSplit.verts)],
                                       [frontPoints |-> <<>>, backPoints |-> <<>>,
                                        inexact |-> FALSE]))
    IN  Result(classifyPortal(portalToSplit, partition))

\* The points a call of splitPortal wrote fit the arrays frontPoints and
\* backPoints and make two polygons.
SplitFits(r) ==
    ~r.split \/ (/\ Len(r.frontPoints) <= PortalMaxVerts
                 /\ Len(r.backPoints) <= PortalMaxVerts
                 /\ Len(r.frontPoints) >= 3
                 /\ Len(r.backPoints) >= 3)

\* The copy of the points into an output portal, and its plane.
SetPortalShape(w, portal, points) ==
    IF PStopped(w) THEN w
    ELSE [w EXCEPT !.portals[portal].verts = points,
                   !.portals[portal].plane = fromPoints(points[1], points[2], points[3]),
                   !.inexact = @ \/ ~IsExactPlane(points[1], points[2], points[3])]

\* buildPortals, first loop: a rough portal for the partition nodes[i..].
RECURSIVE MakeRoughPortals(_, _, _)
MakeRoughPortals(w, nodes, i) ==
    IF i > Len(nodes) \/ PStopped(w) THEN w
    ELSE LET Make(w1, shape) ==
                 IF PStopped(w1) THEN w1
                 ELSE PushBackPortal(
                          [w1 EXCEPT !.portals[w1.newPortal].verts = shape.verts,
                                     !.portals[w1.newPortal].plane = shape.plane,
                                     !.inexact = @ \/ shape.inexact],
                          AllPortals, w1.newPortal)
         IN  MakeRoughPortals(
                 Make(allocPortal(w), makeLargePortal(w.bounds, w.bspNodes[nodes[i]].partition)),
                 nodes, i + 1)

\* if (frontPortal == nullptr) { frontPortal = allocPortal(); backPortal = allocPortal(); }
AllocSplitOutputs(w) ==
    LET SetFront(w1) == IF PStopped(w1) THEN w1 ELSE [w1 EXCEPT !.frontPortal = w1.newPortal]
        SetBack(w2)  == IF PStopped(w2) THEN w2 ELSE [w2 EXCEPT !.backPortal = w2.newPortal]
    IN  IF w.frontPortal # NULL THEN w
        ELSE SetBack(allocPortal(SetFront(allocPortal(w))))

\* The two pieces splitPortal wrote, appended to allPortals.
PushSplitOutputs(w, r) ==
    IF ~SplitFits(r) THEN [w EXCEPT !.tooManyVerts = TRUE]
    ELSE PushBackPortal(
             PushBackPortal(
                 SetPortalShape(
                     SetPortalShape([w EXCEPT !.inexact = @ \/ r.inexact],
                                    w.frontPortal, r.frontPoints),
                     w.backPortal, r.backPoints),
                 AllPortals, w.frontPortal),
             AllPortals, w.backPortal)

\* allPortals.remove(toRemove); freePortal(toRemove); frontPortal = backPortal = nullptr.
DropSplitPortal(w, toRemove) ==
    LET Forget(w1) == IF PStopped(w1) THEN w1
                      ELSE [w1 EXCEPT !.frontPortal = NULL, !.backPortal = NULL]
    IN  Forget(freePortal(RemovePortal(w, AllPortals, toRemove), toRemove))

\* A splitting loop that leaves the pass once a portal was split.
RECURSIVE SplitLoop_StopAfterSplit(_, _, _, _)
SplitLoop_StopAfterSplit(w, partition, portal, portalsLeft) ==
    IF portalsLeft <= 0 \/ PStopped(w) THEN w
    ELSE IF portal = NULL THEN PortalFault(w)
    ELSE LET Pushed(w2) ==
                 IF PStopped(w2) THEN w2 ELSE DropSplitPortal(w2, portal)
             Split(w1, r) ==
                 IF r.split THEN Pushed(PushSplitOutputs(w1, r))
                 ELSE SplitLoop_StopAfterSplit(w1, partition, w1.portalMem.next[portal],
                                               portalsLeft - 1)
             Turn(w1) ==
                 IF PStopped(w1) THEN w1
                 ELSE Split(w1, splitPortal(w1.portals[portal], partition))
         IN  Turn(AllocSplitOutputs(w))

\* The loop while (portalsLeft > 0) of buildPortals for one partition node;
\* "portal = portal->next" is read after the two push_back calls.
RECURSIVE SplitLoop(_, _, _, _)
SplitLoop(w, partition, portal, portalsLeft) ==
    IF portalsLeft <= 0 \/ PStopped(w) THEN w
    ELSE IF portal = NULL THEN PortalFault(w)
    ELSE LET Pushed(w2) ==
                 IF PStopped(w2) THEN w2
                 ELSE SplitLoop(DropSplitPortal(w2, portal), partition,
                                w2.portalMem.next[portal], portalsLeft - 1)
             Split(w1, r) ==
                 IF r.split THEN Pushed(PushSplitOutputs(w1, r))
                 ELSE SplitLoop(w1, partition, w1.portalMem.next[portal], portalsLeft - 1)
             Turn(w1) ==
                 IF PStopped(w1) THEN w1
                 ELSE Split(w1, splitPortal(w1.portals[portal], partition))
         IN  Turn(AllocSplitOutputs(w))

\* The loop of buildPortals over the partition nodes[i..].
RECURSIVE SplitPasses(_, _, _)
SplitPasses(w, nodes, i) ==
    IF i > Len(nodes) \/ PStopped(w) THEN w
    ELSE SplitPasses(SplitLoop(w, w.bspNodes[nodes[i]].partition,
                               first(w.portalMem, AllPortals), size(w.portalMem, AllPortals)),
                     nodes, i + 1)

\* if (frontPortal != nullptr) { freePortal(frontPortal); freePortal(backPortal); }
FreeSplitOutputs(w) ==
    IF PStopped(w) \/ w.frontPortal = NULL THEN w
    ELSE freePortal(freePortal(w, w.frontPortal), w.backPortal)

\* buildPortals from the rough portals to the end of the splitting loop.
splitRoughPortals(w, nodes) ==
    FreeSplitOutputs(SplitPasses(MakeRoughPortals(w, nodes, 1), nodes, 1))

\* buildPortals: portal->id = ++portalId along allPortals.
AssignPortalIds(w) ==
    LET Number(walk) ==
            IF NULL \in Range(walk) THEN PortalFault(w)
            ELSE [w EXCEPT !.portals =
                     [p \in PortalIds |->
                         IF \E i \in DOMAIN walk : walk[i] = p
                         THEN [@[p] EXCEPT !.id = Max({i \in DOMAIN walk : walk[i] = p})]
                         ELSE @[p]]]
    IN  IF PStopped(w) THEN w ELSE Number(Traverse(w.portalMem, AllPortals))

\* addPortalToBspNodeRecursive(world, portal, node); d bounds the depth.
RECURSIVE addPortalToBspNodeRecursive(_, _, _, _)
addPortalToBspNodeRecursive(w, portal, node, d) ==
    IF PStopped(w) \/ d = 0 THEN w
    ELSE IF node = NULL THEN PortalFault(w)
    ELSE IF w.bspNodes[node].isLeaf THEN PushBackPortal(w, node, portal)
    ELSE LET Cloned(w2) ==
                 IF PStopped(w2) THEN w2
                 ELSE addPortalToBspNodeRecursive(w2, w2.newPortal,
                                                  w.bspNodes[node].backNode, d - 1)
             ToBoth(w1) == Cloned(clonePortal(w1, portal))
             Side(side) ==
                 IF side = OnPlane
                 THEN ToBoth(addPortalToBspNodeRecursive(w, portal,
                                                         w.bspNodes[node].frontNode, d - 1))
                 ELSE IF side = BackSide
                 THEN addPortalToBspNodeRecursive(w, portal, w.bspNodes[node].backNode, d - 1)
                 ELSE IF side = FrontSide
                 THEN addPortalToBspNodeRecursive(w, portal, w.bspNodes[node].frontNode, d - 1)
                 ELSE [w EXCEPT !.spanning = TRUE]
         IN  Side(classifyPortal(w.portals[portal], w.bspNodes[node].partition))

\* addPortalsToBspLeaves(world, allPortals).
RECURSIVE addPortalsToBspLeaves(_, _)
addPortalsToBspLeaves(w, root) ==
    IF PStopped(w) THEN w
    ELSE LET Popped(r) ==
                 IF r.node = NULL THEN [w EXCEPT !.portalMem = r.mem]
                 ELSE addPortalsToBspLeaves(
                          addPortalToBspNodeRecursive([w EXCEPT !.portalMem = r.mem],
                                                      r.node, root, MaxBspNodes),
                          root)
         IN  Popped(pop_front(w.portalMem, AllPortals))

\* A search that also looks into the list of the original leaf.
RECURSIVE checkForSinglePortalsRecursive_OwnLeaf(_, _, _, _, _)
checkForSinglePortalsRecursive_OwnLeaf(w, node, originalNode, portal, d) ==
    IF PStopped(w) \/ d = 0 THEN w
    ELSE IF node = NULL THEN PortalFault(w)
    ELSE IF w.bspNodes[node].isLeaf
    THEN LET Hits(n) ==
                 IF n = 0 THEN w
                 ELSE [w EXCEPT !.portals[portal].frontLeaf = originalNode,
                                !.portals[portal].backLeaf = node,
                                !.singleCount = @ + n]
             Match(walk) ==
                 IF NULL \in Range(walk) THEN PortalFault(w)
                 ELSE Hits(Cardinality({i \in DOMAIN walk :
                                           w.portals[walk[i]].id = w.portals[portal].id}))
         IN  Match(Traverse(w.portalMem, node))
    ELSE checkForSinglePortalsRecursive_OwnLeaf(
             checkForSinglePortalsRecursive_OwnLeaf(w, w.bspNodes[node].frontNode,
                                                    originalNode, portal, d - 1),
             w.bspNodes[node].backNode, originalNode, portal, d - 1)

\* checkForSinglePortalsRecursive(node, originalNode, portal, outCount);
\* the count is w.singleCount, d bounds the depth.
RECURSIVE checkForSinglePortalsRecursive(_, _, _, _, _)
checkForSinglePortalsRecursive(w, node, originalNode, portal, d) ==
    IF PStopped(w) \/ d = 0 THEN w
    ELSE IF node = NULL THEN PortalFault(w)
    ELSE IF w.bspNodes[node].isLeaf
    THEN LET Hits(n) ==
                 IF n = 0 THEN w
                 ELSE [w EXCEPT !.portals[portal].frontLeaf = originalNode,
                                !.portals[portal].backLeaf = node,
                                !.singleCount = @ + n]
             Match(walk) ==
                 IF NULL \in Range(walk) THEN PortalFault(w)
                 ELSE Hits(Cardinality({i \in DOMAIN walk :
                                           w.portals[walk[i]].id = w.portals[portal].id}))
         IN  IF w.bspNodes[node].id # w.bspNodes[originalNode].id
             THEN Match(Traverse(w.portalMem, node))
             ELSE w
    ELSE checkForSinglePortalsRecursive(
             checkForSinglePortalsRecursive(w, w.bspNodes[node].frontNode, originalNode,
                                            portal, d - 1),
             w.bspNodes[node].backNode, originalNode, portal, d - 1)

\* The loop of clipPortalToLeaf over the polygons polys[i..] of the leaf.
RECURSIVE ClipLoop(_, _, _, _)
ClipLoop(w, portal, polys, i) ==
    IF i > Len(polys) \/ PStopped(w) THEN w
    ELSE IF polys[i] = NULL THEN [w EXCEPT !.mem = Fault(@)]
    ELSE LET Clip(r) ==
                 IF ~r.split THEN w
                 ELSE IF ~SplitFits(r) THEN [w EXCEPT !.tooManyVerts = TRUE]
                 ELSE SetPortalShape([w EXCEPT !.inexact = @ \/ r.inexact],
                                     portal, r.frontPoints)
         IN  ClipLoop(Clip(splitPortal(w.portals[portal], w.polygons[polys[i]].plane)),
                      portal, polys, i + 1)

clipPortalToLeaf(w, portal, leafNode) ==
    IF PStopped(w) THEN w
    ELSE IF leafNode = NULL THEN PortalFault(w)
    ELSE ClipLoop(w, portal, Traverse(w.mem, leafNode), 1)

Reverse(s) == [i \in 1..Len(s) |-> s[Len(s) + 1 - i]]

invertSinglePortal(w, portal) ==
    SetPortalShape(w, portal, Reverse(w.portals[portal].verts))

\* The vertices invertNodePortals tests, in the order of its two inner
\* loops: those of the polygons polys[i..] before the first null pointer.
RECURSIVE NodeVertexes(_, _, _)
NodeVertexes(w, polys, i) ==
    IF i > Len(polys) \/ polys[i] = NULL THEN <<>>
    ELSE PolyVerts(w, polys[i]) \o NodeVertexes(w, polys, i + 1)

\* An inversion that swaps the leaves of a portal whose front leaf is the node.
InvertPortal_SwapWhenSame(w, node, portal, points, broken) ==
    LET SwapLeaves(w1) ==
            IF PStopped(w1) THEN w1
            ELSE IF w1.portals[portal].frontLeaf = NULL THEN PortalFault(w1)
            ELSE IF w1.bspNodes[w1.portals[portal].frontLeaf].id = w1.bspNodes[node].id
            THEN [w1 EXCEPT !.portals[portal].frontLeaf = w1.portals[portal].backLeaf,
                            !.portals[portal].backLeaf = w1.portals[portal].frontLeaf]
            ELSE w1
        Decide(off) ==
            IF off = {} THEN (IF broken THEN [w EXCEPT !.mem = Fault(@)] ELSE w)
            ELSE IF classifyPoint(w.portals[portal].plane, points[Min(off)]) = BackSide
            THEN SwapLeaves(invertSinglePortal(w, portal))
            ELSE SwapLeaves(w)
    IN  Decide({v \in DOMAIN points :
                   classifyPoint(w.portals[portal].plane, points[v]) # OnPlane})

\* One turn of the outer loop of invertNodePortals: the first vertex off
\* the portal's plane decides; broken says the polygon walk ends in a null
\* pointer, which the loop dereferences when no vertex before it decides.
InvertPortal(w, node, portal, points, broken) ==
    LET SwapLeaves(w1) ==
            IF PStopped(w1) THEN w1
            ELSE IF w1.portals[portal].frontLeaf = NULL THEN PortalFault(w1)
            ELSE IF w1.bspNodes[w1.portals[portal].frontLeaf].id # w1.bspNodes[node].id
            THEN [w1 EXCEPT !.portals[portal].frontLeaf = w1.portals[portal].backLeaf,
                            !.portals[portal].backLeaf = w1.portals[portal].frontLeaf]
            ELSE w1
        Decide(off) ==
            IF off = {} THEN (IF broken THEN [w EXCEPT !.mem = Fault(@)] ELSE w)
            ELSE IF classifyPoint(w.portals[portal].plane, points[Min(off)]) = BackSide
            THEN SwapLeaves(invertSinglePortal(w, portal))
            ELSE SwapLeaves(w)
    IN  Decide({v \in DOMAIN points :
                   classifyPoint(w.portals[portal].plane, points[v]) # OnPlane})

RECURSIVE InvertLoop(_, _, _, _, _, _)
InvertLoop(w, node, walk, i, points, broken) ==
    IF i > Len(walk) \/ PStopped(w) THEN w
    ELSE IF walk[i] = NULL THEN PortalFault(w)
    ELSE InvertLoop(InvertPortal(w, node, walk[i], points, broken), node, walk, i + 1,
                    points, broken)

\* invertNodePortals(world, node).
invertNodePortals(w, node) ==
    LET Invert(polys) ==
            InvertLoop(w, node, Traverse(w.portalMem, node), 1,
                       NodeVertexes(w, polys, 1), NULL \in Range(polys))
    IN  IF PStopped(w) THEN w ELSE Invert(Traverse(w.mem, node))

\* The classifications removeExtraPortals counts: one per polygon of the
\* back leaf.
ExtraVerdicts(w, portal) ==
    LET polys == Traverse(w.mem, w.portals[portal].backLeaf)
    IN  [i \in DOMAIN polys |->
            classifyInvertedPortal(w.portals[portal], w.polygons[polys[i]].plane)]

\* A removeExtraPortals that prunes when most of the planes put the portal
\* in front.
removeExtraPortals_Majority(w, portal) ==
    LET Count(verdicts) ==
            2 * HowMany(verdicts, FrontSide) > Len(verdicts)
    IN  Count(ExtraVerdicts(w, portal))

\* removeExtraPortals(portal): TRUE when the portal is to be removed.
removeExtraPortals(w, portal) ==
    LET Count(verdicts) ==
            HowMany(verdicts, FrontSide) # size(w.mem, w.portals[portal].backLeaf)
    IN  Count(ExtraVerdicts(w, portal))

\* removeExtraPortals dereferences the back leaf and its polygons.
ExtraFaults(w, portal) ==
    \/ w.portals[portal].backLeaf = NULL
    \/ NULL \in Range(Traverse(w.mem, w.portals[portal].backLeaf))

\* The first loop of findTruePortalsRecursive on a leaf.
RECURSIVE SingleLoop(_, _, _, _, _)
SingleLoop(w, root, node, portal, portalsLeft) ==
    IF portalsLeft <= 0 \/ PStopped(w) THEN w
    ELSE IF portal = NULL THEN PortalFault(w)
    ELSE LET Clipped(w2) ==
                 IF PStopped(w2) THEN w2
                 ELSE SingleLoop(w2, root, node, w2.portalMem.next[portal], portalsLeft - 1)
             Checked(w1) ==
                 IF PStopped(w1) THEN w1
                 ELSE IF w1.singleCount = 0
                 THEN SingleLoop(freePortal(RemovePortal(w1, node, portal), portal),
                                 root, node, w1.portalMem.next[portal], portalsLeft - 1)
                 ELSE Clipped(clipPortalToLeaf(
                                  clipPortalToLeaf(w1, portal, w1.portals[portal].frontLeaf),
                                  portal, w1.portals[portal].backLeaf))
         IN  Checked(checkForSinglePortalsRecursive([w EXCEPT !.singleCount = 0], root, node,
                                                    portal, MaxBspNodes))

\* The second loop of findTruePortalsRecursive on a leaf.  w.extra records
\* each portal tested, the classifications counted and the verdict.
RECURSIVE ExtraLoop(_, _, _, _)
ExtraLoop(w, node, portal, portalsLeft) ==
    IF portalsLeft <= 0 \/ PStopped(w) THEN w
    ELSE IF portal = NULL THEN PortalFault(w)
    ELSE IF w.portals[portal].backLeaf = NULL THEN PortalFault(w)
    ELSE IF ExtraFaults(w, portal) THEN [w EXCEPT !.mem = Fault(@)]
    ELSE LET Tested(shouldRemove, w1) ==
                 IF shouldRemove
                 THEN ExtraLoop(freePortal(RemovePortal(w1, node, portal), portal),
                                node, w.portalMem.next[portal], portalsLeft - 1)
                 ELSE ExtraLoop(w1, node, w.portalMem.next[portal], portalsLeft - 1)
         IN  Tested(removeExtraPortals(w, portal),
                    [w EXCEPT !.extra = @ \cup
                        {[portal |-> portal, leaf |-> node,
                          backLeaf |-> w.portals[portal].backLeaf,
                          verdicts |-> ExtraVerdicts(w, portal),
                          removed |-> removeExtraPortals(w, portal)]}])

\* findTruePortalsRecursive(world, node) on the leaf node.
findTruePortalsLeaf(w, root, node) ==
    LET Second(w2) ==
            IF PStopped(w2) THEN w2
            ELSE ExtraLoop(w2, node, first(w2.portalMem, node), size(w2.portalMem, node))
    IN  Second(invertNodePortals(
                   SingleLoop(w, root, node, first(w.portalMem, node),
                              size(w.portalMem, node)),
                   node))

\* countPortalsRecursive: the sum of the sizes of the portal lists.
RECURSIVE countPortalsRecursive(_, _, _)
countPortalsRecursive(w, node, d) ==
    IF node = NULL \/ d = 0 THEN 0
    ELSE size(w.portalMem, node)
         + countPortalsRecursive(w, w.bspNodes[node].frontNode, d - 1)
         + countPortalsRecursive(w, w.bspNodes[node].backNode, d - 1)

\* ------------------------------------------------------------------------
\* Inputs: triangles with integer coordinates in axis-parallel planes.
\* ------------------------------------------------------------------------
Catalogue ==
    << <<Vec3(0, 0, 0),  Vec3(4, 0, 0),  Vec3(0, 4, 0)>>,     \* z = 0, facing +z
       <<Vec3(0, 0, 0),  Vec3(0, 4, 0),  Vec3(4, 0, 0)>>,     \* z = 0, facing -z
       <<Vec3(0, 0, 1),  Vec3(4, 0, 1),  Vec3(0, 4, 1)>>,     \* z = 1, facing +z
       <<Vec3(0, 0, 1),  Vec3(0, 4, 5),  Vec3(0, 0, 5)>>,     \* x = 0, rising from z = 1
       <<Vec3(0, 0, 4),  Vec3(4, 0, 4),  Vec3(0, 4, 4)>>,     \* z = 4, facing +z
       <<Vec3(0, 0, -4), Vec3(0, 8, -4), Vec3(0, 0, 4)>>,     \* x = 0, through z = 0
       <<Vec3(-4, 0, 0), Vec3(4, 0, 0),  Vec3(-4, 0, 8)>> >>  \* y = 0, through x = 0

Triangles == Range(Catalogue)

Scenes == UNION {[1..n -> Triangles] : n \in 1..MaxTris}

InitWorld ==
    /\ vertexes = <<>>
    /\ polygons = [p \in PolyIds |-> NewPolygon]
    /\ polygonPoolAlloc = EmptyPool
    /\ bspNodes = [n \in ListIds |-> NewBspNode]
    /\ bspNodePoolAlloc = EmptyPool
    /\ bspRoot = NULL
    /\ bspLeafCount = 0
    /\ bspPartitionCount = 0
    /\ bspLeafNodes = <<>>
    /\ bspPartitionNodes = <<>>
    /\ g_nPolys = [s \in {OnPlane, BackSide, FrontSide, Spanning} |-> 0]
    /\ stack = <<>>
    /\ trail = [op |-> "none"]
    /\ InitPortals

\* ------------------------------------------------------------------------
\* Specification SpecBuild: createFromPolygons on a scene, with the calls
\* of buildBspTreeRecursive taken one at a time from a stack (front child
\* first), then gatherBspNodeLists.
\* ------------------------------------------------------------------------
InitBuild ==
    /\ InitMem
    /\ model  = [l \in ListIds |-> <<>>]
    /\ lastOp = [op |-> "none", arg |-> NULL, ret |-> NULL, pre |-> <<>>]
    /\ InitWorld
    /\ pc = "start"
    /\ input \in Scenes

\* The loop of createFromPolygons over worldPolys[p..].
\* One turn of the loop of createFromPolygons: the triangle poly.
LoadPolygon(w, root, poly) ==
    LET SetSlice(w1) ==
            IF Stopped(w1) THEN w1
            ELSE [w1 EXCEPT !.polygons[LastPolygon(w1)].firstVertex = Len(w.vertexes),
                            !.polygons[LastPolygon(w1)].vertexCount = 3]
        AddVertexes(w3) ==
            IF Stopped(w3) THEN w3
            ELSE [w3 EXCEPT !.polygons[LastPolygon(w3)].plane =
                                fromPoints(poly[1], poly[2], poly[3]),
                            !.vertexes = @ \o poly,
                            !.inexact = @ \/ ~IsExactPlane(poly[1], poly[2], poly[3])]
    IN  AddVertexes(PushLastPolygon(SetSlice(allocPolygon(w)), root))

RECURSIVE LoadPolygons(_, _, _, _)
LoadPolygons(w, root, worldPolys, p) ==
    IF p > Len(worldPolys) \/ Stopped(w) THEN w
    ELSE LoadPolygons(LoadPolygon(w, root, worldPolys[p]), root, worldPolys, p + 1)

\* world->computeBounds().
SetBounds(w) == [w EXCEPT !.bounds = computeBounds(w.vertexes)]

\* createFromPolygons(world, worldPolys, worldPolyCount) up to the test of
\* g_bBuildBspTree: the world, and the node that is its bspRoot.
createFromPolygons(w, worldPolys) ==
    LET Loaded(w0) ==
            [world |-> [SetBounds(LoadPolygons(w0, LastBspNode(w0), worldPolys, 1))
                            EXCEPT !.g_nPolys = [s \in DOMAIN @ |-> 0]],
             root  |-> LastBspNode(w0)]
    IN  Loaded(allocBspNode(w))

\* createFromPolygons up to the call of buildBspTreeRecursive; with
\* g_bBuildBspTree off it returns without building the tree and the portals.
CreateFromPolygons ==
    /\ pc = "start"
    /\ \E r \in {createFromPolygons(W, input)} :
           /\ ~r.world.overflow
           /\ ~r.world.inexact
           /\ SetWorld(r.world)
           /\ bspRoot' = r.root
           /\ stack' = IF g_bBuildBspTree THEN <<r.root>> ELSE <<>>
           /\ pc' = IF r.world.mem.fault THEN "crashed"
                    ELSE IF g_bBuildBspTree THEN "bsp" ELSE "ready"
           /\ trail' = [op |-> "load"]
    /\ UNCHANGED <<model, lastOp, bspLeafNodes, bspPartitionNodes, input, frameVars>>

\* One call of buildBspTreeRecursive: the node on top of the stack.
BuildNode ==
    /\ pc = "bsp"
    /\ stack # <<>>
    /\ \E node \in {Head(stack)} :
       \E w \in {buildBspTreeNode(W, node)} :
           /\ ~w.overflow
           /\ ~w.inexact
           /\ SetWorld(w)
           /\ pc' = IF w.mem.fault THEN "crashed" ELSE "bsp"
           /\ stack' = IF w.mem.fault THEN stack
                       ELSE IF w.bspNodes[node].isLeaf THEN Tail(stack)
                       ELSE <<w.bspNodes[node].frontNode, w.bspNodes[node].backNode>>
                            \o Tail(stack)
           /\ trail' = [op |-> "build", node |-> node,
                        list |-> Traverse(Mem, node),
                        partitionPolygon |-> selectPartitionfromList(W, node),
                        onPlane |-> w.onPlane]
    /\ UNCHANGED <<model, lastOp, bspRoot, bspLeafNodes, bspPartitionNodes, input,
                   frameVars>>

\* The tree is complete: buildPortals puts the nodes aside.
GatherNodes ==
    /\ pc = "bsp"
    /\ stack = <<>>
    /\ \E out \in {gatherBspNodeLists(bspNodes, bspRoot,
                         [partitions |-> bspPartitionNodes, leaves |-> bspLeafNodes],
                         MaxBspNodes)} :
           /\ bspPartitionNodes' = out.partitions
           /\ bspLeafNodes' = out.leaves
    /\ pc' = "built"
    /\ trail' = [op |-> "gather"]
    /\ UNCHANGED <<listVars, vertexes, polygons, polygonPoolAlloc, bspNodes,
                   bspNodePoolAlloc, bspRoot, bspLeafCount, bspPartitionCount,
                   g_nPolys, stack, input, portalVars, frameVars>>

\* Where the program is after a step of buildPortals that was to lead to ok.
PcAfter(w, ok) ==
    IF w.mem.fault \/ w.portalMem.fault THEN "portal_crashed"
    ELSE IF w.tooManyVerts THEN "undefined"
    ELSE ok

\* buildPortals: the rough portals and the splitting loop.
SplitRoughPortals ==
    /\ pc = "built"
    /\ \E w \in {splitRoughPortals(W, bspPartitionNodes)} :
           /\ ~w.overflow
           /\ ~w.inexact
           /\ SetWorld(w)
           /\ pc' = PcAfter(w, "split")
    /\ trail' = [op |-> "splitPortals"]
    /\ UNCHANGED <<model, lastOp, bspRoot, bspLeafNodes, bspPartitionNodes, stack, input,
                   frameVars>>

\* buildPortals: the portal ids and addPortalsToBspLeaves.
AddPortalsToLeaves ==
    /\ pc = "split"
    /\ \E w \in {addPortalsToBspLeaves(AssignPortalIds(W), bspRoot)} :
           /\ ~w.overflow
           /\ ~w.inexact
           /\ SetWorld(w)
           /\ pc' = PcAfter(w, "linked")
           /\ trail' = [op |-> "addPortals", spanning |-> w.spanning]
    /\ stack' = <<bspRoot>>
    /\ UNCHANGED <<model, lastOp, bspRoot, bspLeafNodes, bspPartitionNodes, input,
                   frameVars>>

\* One call of findTruePortalsRecursive: the node on top of the stack.
FindTruePortals ==
    /\ pc = "linked"
    /\ stack # <<>>
    /\ \E node \in {Head(stack)} :
       \E w \in {IF bspNodes[node].isLeaf THEN findTruePortalsLeaf(W, bspRoot, node)
                 ELSE W} :
           /\ ~w.overflow
           /\ ~w.inexact
           /\ SetWorld(w)
           /\ pc' = PcAfter(w, "linked")
           /\ stack' = IF bspNodes[node].isLeaf THEN Tail(stack)
                       ELSE <<bspNodes[node].frontNode, bspNodes[node].backNode>>
                            \o Tail(stack)
           /\ trail' = [op |-> "truePortals", node |-> node, extra |-> w.extra]
    /\ UNCHANGED <<model, lastOp, bspRoot, bspLeafNodes, bspPartitionNodes, input,
                   frameVars>>

\* The end of buildPortals: countPortalsRecursive.
CountPortals ==
    /\ pc = "linked"
    /\ stack = <<>>
    /\ bspPortalCount' = countPortalsRecursive(W, bspRoot, MaxBspNodes)
    /\ pc' = "ready"
    /\ trail' = [op |-> "countPortals"]
    /\ UNCHANGED <<listVars, vertexes, polygons, polygonPoolAlloc, bspNodes,
                   bspNodePoolAlloc, bspRoot, bspLeafCount, bspPartitionCount,
                   bspLeafNodes, bspPartitionNodes, g_nPolys, stack, input, portalVars,
                   g_nFrameNumber, frame, flagVars>>

\* ------------------------------------------------------------------------
\* Frames: WorldBspApp::onFrameRender on a built world.  The camera is at
\* one of Eyes and looks along an axis; g_bRenderUseBsp is a key the user
\* may have toggled before the frame.
\* A frustum plane and a plane findVisibleLeavesRecursive makes have unit
\* normals n / |n|.  For points with integer coordinates the plane with the
\* integer normal n classifies every point as the unit plane does while
\* |n| stays below 1 / (2 Epsilon), and calcEdgeIntersection does not
\* change when normal and distance are multiplied by |n|: the planes are
\* given by n, and a frame with a longer n is not followed.
\* ------------------------------------------------------------------------
MaxViewDistance == 16   \* the far plane of the camera

Eyes ==
    {Vec3(-1, 0, 0), Vec3(1, 1, 2), Vec3(1, -1, -2), Vec3(-5, 0, 0)}

ViewDirs ==
    {Vec3(-1, 0, 0), Vec3(1, 0, 0), Vec3(0, 0, -1)}

\* Plane::recalculateDistance(point), for the normal given.
recalculateDistance(normal, point) ==
    [normal |-> normal, distance |-> -dot(point, normal)]

IsExactDirection(normal) == 4 * dot(normal, normal) <= EpsilonInv * EpsilonInv

\* Frustum::computeClippingPlanes for a camera at eye that looks along dir
\* with a square field of view of 90 degrees: p[0] right, p[1] left,
\* p[2] bottom, p[3] top, p[4] far, p[5] near.
Frustum(eye, dir) ==
    LET Planes(right, up) ==
            << recalculateDistance(VecSub(dir, right), eye),
               recalculateDistance(VecSub(dir, Negate(right)), eye),
               recalculateDistance(VecSub(dir, Negate(up)), eye),
               recalculateDistance(VecSub(dir, up), eye),
               [normal |-> Negate(dir), distance |-> dot(dir, eye) + MaxViewDistance],
               recalculateDistance(dir, eye) >>
    IN  Planes(<<dir[3], dir[1], dir[2]>>, <<dir[2], dir[3], dir[1]>>)

\* findLeafRecursive(referencePosition, node).
RECURSIVE findLeafRecursive(_, _, _)
findLeafRecursive(referencePosition, node, d) ==
    IF node = NULL \/ d = 0 THEN NULL
    ELSE IF bspNodes[node].isLeaf THEN node
    ELSE IF classifyPoint(bspNodes[node].partition, referencePosition) \in {FrontSide, OnPlane}
    THEN findLeafRecursive(referencePosition, bspNodes[node].frontNode, d - 1)
    ELSE findLeafRecursive(referencePosition, bspNodes[node].backNode, d - 1)

\* What a visibility walk did so far: the leaves it marked, and whether it
\* dereferenced a null pointer, wrote past an array of splitPortal, or
\* repeated a call that is still running (the recursion never returns).
PvsStopped(v) == v.fault \/ v.tooManyVerts \/ v.runaway

\* The loop over the frustum planes planes[planeNum..] for one portal:
\* the clipped portal and frontCount.
RECURSIVE ClipToPlanes(_, _, _)
ClipToPlanes(planes, planeNum, acc) ==
    IF planeNum > Len(planes) \/ acc.tooManyVerts THEN acc
    ELSE LET Turn(r) ==
                 IF ~SplitFits(r) THEN [acc EXCEPT !.tooManyVerts = TRUE]
                 ELSE [verts        |-> IF r.split THEN r.frontPoints ELSE acc.verts,
                       frontCount   |-> IF r.side # BackSide THEN acc.frontCount + 1
                                        ELSE acc.frontCount,
                       inexact      |-> acc.inexact \/ r.inexact
                                            \/ ~IsExactDirection(planes[planeNum].normal),
                       tooManyVerts |-> FALSE]
         IN  ClipToPlanes(planes, planeNum + 1,
                          Turn(splitPortal([verts |-> acc.verts], planes[planeNum])))

RECURSIVE findVisibleLeavesRecursive(_, _, _, _, _, _)
RECURSIVE VisitPortals(_, _, _, _, _, _, _, _)

\* A call findVisibleLeavesRecursive(eye, parentId, _, through) as its
\* caller makes it: the caller works on leaf and was itself entered with
\* the parent ids in entered (none in computePotentiallyVisibleSet).
PvsCall(entered, leaf, through, parentId) ==
    [entered |-> entered, leaf |-> leaf, through |-> through, parentId |-> parentId]

RECURSIVE VisitPortals_NoParentTest(_, _, _, _, _, _, _, _)

\* A loop that enters every portal, the one that leads back included.
VisitPortals_NoParentTest(v, eye, leaf, planes, skip, walk, i, path) ==
    IF i > Len(walk) \/ PvsStopped(v) THEN v
    ELSE IF walk[i] = NULL THEN [v EXCEPT !.fault = TRUE]
    ELSE LET Rest(v1) ==
                 VisitPortals_NoParentTest(v1, eye, leaf, planes, skip, walk, i + 1, path)
             Enter(c) ==
                 IF c.tooManyVerts THEN [v EXCEPT !.tooManyVerts = TRUE]
                 ELSE IF c.frontCount = Len(planes)
                 THEN Rest(findVisibleLeavesRecursive(
                               [v EXCEPT !.inexact = @ \/ c.inexact,
                                         !.calls = @ \cup {PvsCall(skip, leaf, walk[i],
                                                                   bspNodes[leaf].id)}],
                               eye, bspNodes[leaf].id, c.verts, walk[i], path))
                 ELSE Rest([v EXCEPT !.inexact = @ \/ c.inexact])
         IN  Enter(ClipToPlanes(planes, 1,
                                [verts |-> portals[walk[i]].verts, frontCount |-> 0,
                                 inexact |-> FALSE, tooManyVerts |-> FALSE]))

\* The loop over the portals walk[i..] of a leaf, in
\* computePotentiallyVisibleSet (skip = {}) and in
\* findVisibleLeavesRecursive (skip = {parentId}).
VisitPortals(v, eye, leaf, planes, skip, walk, i, path) ==
    IF i > Len(walk) \/ PvsStopped(v) THEN v
    ELSE IF walk[i] = NULL THEN [v EXCEPT !.fault = TRUE]
    ELSE LET Rest(v1) == VisitPortals(v1, eye, leaf, planes, skip, walk, i + 1, path)
             Enter(c) ==
                 IF c.tooManyVerts THEN [v EXCEPT !.tooManyVerts = TRUE]
                 ELSE IF c.frontCount = Len(planes)
                 THEN Rest(findVisibleLeavesRecursive(
                               [v EXCEPT !.inexact = @ \/ c.inexact,
                                         !.calls = @ \cup {PvsCall(skip, leaf, walk[i],
                                                                   bspNodes[leaf].id)}],
                               eye, bspNodes[leaf].id, c.verts, walk[i], path))
                 ELSE Rest([v EXCEPT !.inexact = @ \/ c.inexact])
             Clip(portal) ==
                 Enter(ClipToPlanes(planes, 1,
                                    [verts |-> portal.verts, frontCount |-> 0,
                                     inexact |-> FALSE, tooManyVerts |-> FALSE]))
         IN  IF skip = {} THEN Clip(portals[walk[i]])
             ELSE IF portals[walk[i]].backLeaf = NULL THEN [v EXCEPT !.fault = TRUE]
             ELSE IF bspNodes[portals[walk[i]].backLeaf].id \in skip THEN Rest(v)
             ELSE Clip(portals[walk[i]])

\* findVisibleLeavesRecursive(eye, parentId, currentPortal, inputPortal);
\* path holds the arguments of the calls that have not returned.
findVisibleLeavesRecursive(v, eye, parentId, currentPortal, inputPortal, path) ==
    IF PvsStopped(v) THEN v
    ELSE IF <<parentId, currentPortal, inputPortal>> \in path
    THEN [v EXCEPT !.runaway = TRUE]
    ELSE IF portals[inputPortal].backLeaf = NULL THEN [v EXCEPT !.fault = TRUE]
    ELSE LET numPlanes == Len(currentPortal)
             Nminus1(p) == IF p = 1 THEN numPlanes ELSE p - 1
             Mark(currentLeaf, planes) ==
                 VisitPortals([v EXCEPT !.marked = @ \cup {currentLeaf}], eye, currentLeaf,
                              planes, {parentId}, Traverse(portalMem, currentLeaf), 1,
                              path \cup {<<parentId, currentPortal, inputPortal>>})
         IN  Mark(portals[inputPortal].backLeaf,
                  [p \in 1..numPlanes |->
                      recalculateDistance(cross(VecSub(currentPortal[p], eye),
                                                VecSub(currentPortal[Nminus1(p)], eye)),
                                          eye)])

\* A visibility walk that marks the leaves behind the portals only.
computePotentiallyVisibleSet_NoEyeMark(eye, frustum, currentLeaf) ==
    IF currentLeaf = NULL
    THEN [marked |-> {}, fault |-> TRUE, inexact |-> FALSE, tooManyVerts |-> FALSE,
          runaway |-> FALSE, calls |-> {}]
    ELSE VisitPortals([marked |-> {}, fault |-> FALSE, inexact |-> FALSE,
                       tooManyVerts |-> FALSE, runaway |-> FALSE,
                       calls |-> {}],
                      eye, currentLeaf, SubSeq(frustum, 1, 5), {},
                      Traverse(portalMem, currentLeaf), 1, {})

\* computePotentiallyVisibleSet(eye, frustum, currentLeaf): the near plane
\* frustum[6] is not tested.
computePotentiallyVisibleSet(eye, frustum, currentLeaf) ==
    IF currentLeaf = NULL
    THEN [marked |-> {}, fault |-> TRUE, inexact |-> FALSE, tooManyVerts |-> FALSE,
          runaway |-> FALSE, calls |-> {}]
    ELSE VisitPortals([marked |-> {currentLeaf}, fault |-> FALSE, inexact |-> FALSE,
                       tooManyVerts |-> FALSE, runaway |-> FALSE,
                       calls |-> {}],
                      eye, currentLeaf, SubSeq(frustum, 1, 5), {},
                      Traverse(portalMem, currentLeaf), 1, {})

\* countVisibleLeaves(world), for the nodes as the frame left them.
countVisibleLeaves(nodes) ==
    Cardinality({i \in DOMAIN bspLeafNodes :
                    nodes[bspLeafNodes[i]].visFrame = g_nFrameNumber})

\* renderBspTreeRecursive(world, eyePosition, node): the leaves in the order
\* they are reached, and whether renderPolygonList was called on each.
RECURSIVE renderBspTreeRecursive_FrontFirst(_, _, _, _)
renderBspTreeRecursive_FrontFirst(nodes, eyePosition, node, d) ==
    IF node = NULL \/ d = 0 THEN <<>>
    ELSE IF ~nodes[node].isLeaf
    THEN renderBspTreeRecursive_FrontFirst(nodes, eyePosition, nodes[node].frontNode, d - 1)
         \o renderBspTreeRecursive_FrontFirst(nodes, eyePosition, nodes[node].backNode, d - 1)
    ELSE << [leaf |-> node, drawn |-> nodes[node].visFrame = g_nFrameNumber] >>

RECURSIVE renderBspTreeRecursive(_, _, _, _)
renderBspTreeRecursive(nodes, eyePosition, node, d) ==
    IF node = NULL \/ d = 0 THEN <<>>
    ELSE IF ~nodes[node].isLeaf
    THEN IF classifyPoint(nodes[node].partition, eyePosition) = FrontSide
         THEN renderBspTreeRecursive(nodes, eyePosition, nodes[node].backNode, d - 1)
              \o renderBspTreeRecursive(nodes, eyePosition, nodes[node].frontNode, d - 1)
         ELSE renderBspTreeRecursive(nodes, eyePosition, nodes[node].frontNode, d - 1)
              \o renderBspTreeRecursive(nodes, eyePosition, nodes[node].backNode, d - 1)
    ELSE << [leaf |-> node, drawn |-> nodes[node].visFrame = g_nFrameNumber] >>

\* A render that counts the frame on the BSP path only.
render_BspCountsFrame(nodes, eyePosition, useBsp) ==
    [visited     |-> IF useBsp
                     THEN renderBspTreeRecursive(nodes, eyePosition, bspRoot, MaxBspNodes)
                     ELSE <<>>,
     frameNumber |-> IF useBsp THEN g_nFrameNumber + 1 ELSE g_nFrameNumber]

\* render(world, eyePosition, viewMatrix, mvpMatrix): the leaves
\* renderBspTreeRecursive reached and the value of g_nFrameNumber it leaves.
render(nodes, eyePosition, useBsp) ==
    [visited     |-> IF useBsp
                     THEN renderBspTreeRecursive(nodes, eyePosition, bspRoot, MaxBspNodes)
                     ELSE <<>>,
     frameNumber |-> g_nFrameNumber + 1]

\* The polygon list of a leaf that is drawn has a null pointer in its walk.
RenderFaults(visited) ==
    \E i \in DOMAIN visited :
        visited[i].drawn /\ NULL \in Range(Traverse(Mem, visited[i].leaf))

\* WorldBspApp::onFrameRender.
Frame ==
    /\ pc = "ready"
    /\ g_nFrameNumber < MaxFrames
    /\ \E eye \in Eyes, dir \in ViewDirs, useBsp \in {g_bBuildBspTree /\ g_bRenderUseBsp} :
       \E currentLeaf \in {IF useBsp THEN findLeafRecursive(eye, bspRoot, MaxBspNodes)
                           ELSE NULL} :
       \E v \in {IF useBsp
                 THEN computePotentiallyVisibleSet(eye, Frustum(eye, dir), currentLeaf)
                 ELSE [marked |-> {}, fault |-> FALSE, inexact |-> FALSE,
                       tooManyVerts |-> FALSE, runaway |-> FALSE,
                       calls |-> {}]} :
       \E nodes \in {[n \in ListIds |->
                         IF n \in v.marked
                         THEN [bspNodes[n] EXCEPT !.visFrame = g_nFrameNumber]
                         ELSE bspNodes[n]]} :
       \E r \in {render(nodes, eye, useBsp)} :
       \E rendered \in {~PvsStopped(v) /\ ~RenderFaults(r.visited)} :
           /\ ~v.inexact
           /\ bspNodes' = nodes
           /\ pc' = IF v.runaway THEN "frame_overflow"
                    ELSE IF v.tooManyVerts THEN "undefined"
                    ELSE IF ~rendered THEN "frame_crashed"
                    ELSE "ready"
           /\ g_nFrameNumber' = IF rendered THEN r.frameNumber ELSE g_nFrameNumber
           /\ frame' = [op |-> "frame", number |-> g_nFrameNumber, eye |-> eye,
                        useBsp |-> useBsp, currentLeaf |-> currentLeaf,
                        marked |-> v.marked,
                        calls |-> v.calls,
                        numVisLeaves |-> IF PvsStopped(v) THEN 0
                                         ELSE countVisibleLeaves(nodes),
                        visited |-> IF PvsStopped(v) THEN <<>> ELSE r.visited]
           /\ trail' = [op |-> "frame", rendered |-> rendered]
    /\ UNCHANGED <<listVars, vertexes, polygons, polygonPoolAlloc, bspNodePoolAlloc,
                   bspRoot, bspLeafCount, bspPartitionCount, bspLeafNodes,
                   bspPartitionNodes, g_nPolys, stack, input, portalVars, bspPortalCount,
                   flagVars>>

\* The counters and index vectors that describe the shape of the tree.
WorldShape ==
    [bspLeafCount      |-> bspLeafCount,
     bspPartitionCount |-> bspPartitionCount,
     bspPortalCount    |-> bspPortalCount,
     leafNodes         |-> Len(bspLeafNodes),
     partitionNodes    |-> Len(bspPartitionNodes)]

\* A cleanup that drains the pools and leaves the node counters.
cleanup_KeepCounters(w) ==
    [w EXCEPT !.mem = [next  |-> [p \in PolyIds |-> NULL],
                       prev  |-> [p \in PolyIds |-> NULL],
                       head  |-> [l \in ListIds |-> NULL],
                       count |-> [l \in ListIds |-> 0],
                       fault |-> FALSE],
              !.vertexes = <<>>,
              !.polygons = [p \in PolyIds |-> NewPolygon],
              !.polygonPoolAlloc = EmptyPool,
              !.bspNodes = [n \in ListIds |-> NewBspNode],
              !.bspNodePoolAlloc = EmptyPool,
              !.bounds = ZeroBounds,
              !.portals = [p \in PortalIds |-> NewPortal],
              !.portalMem = InitPortalMem,
              !.portalPoolAlloc = EmptyPortalPool]

\* RenderData::cleanup: the world as the constructor left it.
cleanup(w) ==
    [w EXCEPT !.mem = [next  |-> [p \in PolyIds |-> NULL],
                       prev  |-> [p \in PolyIds |-> NULL],
                       head  |-> [l \in ListIds |-> NULL],
                       count |-> [l \in ListIds |-> 0],
                       fault |-> FALSE],
              !.vertexes = <<>>,
              !.polygons = [p \in PolyIds |-> NewPolygon],
              !.polygonPoolAlloc = EmptyPool,
              !.bspNodes = [n \in ListIds |-> NewBspNode],
              !.bspNodePoolAlloc = EmptyPool,
              !.bspLeafCount = 0,
              !.bspPartitionCount = 0,
              !.bounds = ZeroBounds,
              !.portals = [p \in PortalIds |-> NewPortal],
              !.portalMem = InitPortalMem,
              !.portalPoolAlloc = EmptyPortalPool]

\* WorldBspApp loads another map: world.cleanup(), then createFromDatafile.
\* frame keeps the shape of the world that is discarded.
Cleanup ==
    /\ pc = "ready"
    /\ SetWorld(cleanup(W))
    /\ bspRoot' = NULL
    /\ bspLeafNodes' = <<>>
    /\ bspPartitionNodes' = <<>>
    /\ bspPortalCount' = 0
    /\ stack' = <<>>
    /\ pc' = "start"
    /\ trail' = [op |-> "cleanup"]
    /\ frame' = [op |-> "none", discarded |-> WorldShape]
    /\ UNCHANGED <<model, lastOp, input, g_nFrameNumber, flagVars>>

NextBuild ==
    \/ CreateFromPolygons
    \/ BuildNode
    \/ GatherNodes
    \/ SplitRoughPortals
    \/ AddPortalsToLeaves
    \/ FindTruePortals
    \/ CountPortals

SpecBuild == InitBuild /\ [][NextBuild]_vars

\* ------------------------------------------------------------------------
\* Specification SpecView: WorldBspApp, which builds a world from a map,
\* renders frames of it from a camera, and loads the map again.
\* ------------------------------------------------------------------------

\* Two coincident triangles in z = 0 that face each other's way, and one
\* in y = 0 that crosses them: three leaves around the line y = z = 0.
CycleScene ==
    << <<Vec3(-4, -4, 0), Vec3(4, -4, 0), Vec3(-4, 4, 0)>>,
       <<Vec3(-4, -4, 0), Vec3(-4, 4, 0), Vec3(4, -4, 0)>>,
       <<Vec3(-4, 0, -4), Vec3(4, 0, -4), Vec3(-4, 0, 4)>> >>

ViewScenes ==
    { <<Catalogue[6]>>,
      <<Catalogue[7], Catalogue[6], Catalogue[1]>>,
      CycleScene }

InitView ==
    /\ InitMem
    /\ model  = [l \in ListIds |-> <<>>]
    /\ lastOp = [op |-> "none", arg |-> NULL, ret |-> NULL, pre |-> <<>>]
    /\ InitWorld
    /\ pc = "start"
    /\ input \in ViewScenes

\* WorldBspApp::onKeyChar('b').
KeyB ==
    /\ pc = "ready"
    /\ g_bRenderUseBsp' = ~g_bRenderUseBsp
    /\ UNCHANGED <<listVars, vertexes, polygons, polygonPoolAlloc, bspNodes,
                   bspNodePoolAlloc, bspRoot, bspLeafCount, bspPartitionCount,
                   bspLeafNodes, bspPartitionNodes, g_nPolys, pc, stack, input, trail,
                   portalVars, bspPortalCount, g_nFrameNumber, frame, g_bBuildBspTree>>

NextView ==
    \/ NextBuild
    \/ Frame
    \/ Cleanup
    \/ KeyB

SpecView == InitView /\ [][NextView]_vars


\* ------------------------------------------------------------------------
\* Specification SpecList: one list (list 1) under every sequence of its
\* operations, over the nodes 1..MaxListNodes.
\* ------------------------------------------------------------------------
L1 == 1

ListNodes == 1..MaxListNodes

InitList ==
    /\ InitMem
    /\ model  = [l \in ListIds |-> <<>>]
    /\ lastOp = [op |-> "none", arg |-> NULL, ret |-> NULL, pre |-> <<>>]
    /\ InitWorld
    /\ pc = "list"
    /\ input = <<>>

Front(s) == IF s = <<>> THEN NULL ELSE s[1]

Back(s) == IF s = <<>> THEN NULL ELSE s[Len(s)]

ButLast(s) == IF s = <<>> THEN <<>> ELSE SubSeq(s, 1, Len(s) - 1)

Without(s, x) == SelectSeq(s, LAMBDA y : y # x)

PushFront(node) ==
    /\ ~fault
    /\ node \notin Range(model[L1])
    /\ SetMem(push_front(Mem, L1, node))
    /\ model' = [model EXCEPT ![L1] = <<node>> \o @]
    /\ lastOp' = [op |-> "push_front", arg |-> node, ret |-> NULL, pre |-> model[L1]]
    /\ UNCHANGED worldVars

PushBack(node) ==
    /\ ~fault
    /\ node \notin Range(model[L1])
    /\ SetMem(push_back(Mem, L1, node))
    /\ model' = [model EXCEPT ![L1] = Append(@, node)]
    /\ lastOp' = [op |-> "push_back", arg |-> node, ret |-> NULL, pre |-> model[L1]]
    /\ UNCHANGED worldVars

PopFront ==
    /\ ~fault
    /\ LET r == pop_front(Mem, L1)
       IN  /\ SetMem(r.mem)
           /\ lastOp' = [op |-> "pop_front", arg |-> NULL, ret |-> r.node, pre |-> model[L1]]
    /\ model' = [model EXCEPT ![L1] = IF @ = <<>> THEN <<>> ELSE Tail(@)]
    /\ UNCHANGED worldVars

PopBack ==
    /\ ~fault
    /\ LET r == pop_back(Mem, L1)
       IN  /\ SetMem(r.mem)
           /\ lastOp' = [op |-> "pop_back", arg |-> NULL, ret |-> r.node, pre |-> model[L1]]
    /\ model' = [model EXCEPT ![L1] = ButLast(@)]
    /\ UNCHANGED worldVars

Remove(node) ==
    /\ ~fault
    /\ node \in Range(model[L1])
    /\ SetMem(remove(Mem, L1, node))
    /\ model' = [model EXCEPT ![L1] = Without(@, node)]
    /\ lastOp' = [op |-> "remove", arg |-> node, ret |-> NULL, pre |-> model[L1]]
    /\ UNCHANGED worldVars

NextList ==
    \/ \E node \in ListNodes : PushFront(node)
    \/ \E node \in ListNodes : PushBack(node)
    \/ PopFront
    \/ PopBack
    \/ \E node \in ListNodes : Remove(node)

SpecList == InitList /\ [][NextList]_vars

\* C1: the list behaves as a sequence: walking next from first() for size()
\* steps visits exactly the members in sequence order, and pop_front /
\* pop_back return the first / last member (NULL on an empty list).
C1_ListIsSequence ==
    /\ ~fault
    /\ size(Mem, L1) = Len(model[L1])
    /\ Traverse(Mem, L1) = model[L1]
    /\ lastOp.op = "pop_front" => lastOp.ret = Front(lastOp.pre)
    /\ lastOp.op = "pop_back" => lastOp.ret = Back(lastOp.pre)

C1_Witness ==
    /\ lastOp.op = "pop_front"
    /\ Len(lastOp.pre) = 3
    /\ lastOp.ret = lastOp.pre[1]
    /\ Traverse(Mem, L1) = Tail(lastOp.pre)

\* C2: after every operation on a non-empty list the list is circular in
\* both directions.
Circular(m, l) ==
    LET hd == m.head[l]
        s  == Traverse(m, l)
    IN  /\ hd # NULL
        /\ m.prev[hd] = s[Len(s)]
        /\ m.next[s[Len(s)]] = hd
        /\ \A x \in Range(s) :
              /\ m.next[x] # NULL /\ m.prev[m.next[x]] = x
              /\ m.prev[x] # NULL /\ m.next[m.prev[x]] = x

C2_Circular == (~fault /\ count[L1] > 0) => Circular(Mem, L1)

\* ------------------------------------------------------------------------
\* Specification SpecSplit: splitTriangle applied once to a triangle of the
\* catalogue (in each rotation of its vertices) and a plane with an axis
\* normal, as buildBspTreeRecursive calls it: the triangle is polygon 1,
\* popped from the list of node 1, whose children are nodes 2 (front) and
\* 3 (back).
\* ------------------------------------------------------------------------
MaxPlaneDistance == 5

Rotate(t, r) == [v \in 1..3 |-> t[((v - 1 + r) % 3) + 1]]

AxisNormals ==
    {Vec3(1, 0, 0), Vec3(-1, 0, 0), Vec3(0, 1, 0), Vec3(0, -1, 0), Vec3(0, 0, 1), Vec3(0, 0, -1)}

AxisPlanes ==
    {[normal |-> n, distance |-> d] : n \in AxisNormals, d \in (-MaxPlaneDistance)..MaxPlaneDistance}

\* The catalogue, and triangles with a vertex at each of three heights.
SplitTriangles ==
    Triangles \cup
        { <<Vec3(0, 0, -4), Vec3(0, 4, 0), Vec3(0, 0, 4)>>,
          <<Vec3(-4, 0, 0), Vec3(0, 0, 4), Vec3(4, 0, 0)>>,
          <<Vec3(-2, -4, 0), Vec3(2, 0, 0), Vec3(-2, 4, 0)>> }

SplitNode  == 1
SplitFront == 2
SplitBack  == 3

InitSplit ==
    /\ InitMem
    /\ model  = [l \in ListIds |-> <<>>]
    /\ lastOp = [op |-> "none", arg |-> NULL, ret |-> NULL, pre |-> <<>>]
    /\ vertexes = <<>>
    /\ polygons = [p \in PolyIds |-> NewPolygon]
    /\ polygonPoolAlloc = EmptyPool
    /\ \E plane \in AxisPlanes :
          bspNodes = [n \in ListIds |->
                         IF n = SplitNode
                         THEN [NewBspNode EXCEPT !.partition = plane,
                                                 !.frontNode = SplitFront,
                                                 !.backNode = SplitBack]
                         ELSE NewBspNode]
    /\ bspNodePoolAlloc = [allocCount |-> 3, objectCount |-> 3, poolBlockCount |-> 1]
    /\ bspRoot = SplitNode
    /\ bspLeafCount = 0
    /\ bspPartitionCount = 1
    /\ bspLeafNodes = <<>>
    /\ bspPartitionNodes = <<>>
    /\ g_nPolys = [s \in {OnPlane, BackSide, FrontSide, Spanning} |-> 0]
    /\ stack = <<>>
    /\ trail = [op |-> "none"]
    /\ InitPortals
    /\ pc = "split"
    /\ \E t \in SplitTriangles, r \in 0..2 : input = <<Rotate(t, r)>>
    /\ ~SplitPoints(input[1], bspNodes[SplitNode].partition, 1, input[1][3],
                    [frontPoints |-> <<>>, backPoints |-> <<>>, inexact |-> FALSE]).inexact

SplitTriangle ==
    /\ pc = "split"
    /\ \E w1 \in {[LoadPolygons(W, SplitNode, input, 1)
                       EXCEPT !.mem = pop_front(@, SplitNode).mem]} :
       \E w \in {splitTriangle(w1, 1, bspNodes[SplitNode].partition, SplitFront, SplitBack)} :
           /\ ~w.overflow
           /\ ~w.inexact
           /\ SetWorld(w)
    /\ pc' = "split_done"
    /\ trail' = [op |-> "split"]
    /\ UNCHANGED <<model, lastOp, bspRoot, bspLeafNodes, bspPartitionNodes, stack, input,
                   frameVars>>

NextSplit == SplitTriangle

SpecSplit == InitSplit /\ [][NextSplit]_vars

\* ------------------------------------------------------------------------
\* Specification SpecClip: clipPortalToLeaf on a rough portal, one turn of
\* its loop per step.  The portal is slot ClipPortal, made by
\* makeLargePortal from a box around the origin and a partition z = 0; the
\* leaf's polygons are the input, and the plane of the polygon of each turn
\* (slot ClipPolygon) is drawn from ClipPlanes when the turn is taken.
\* A plane of the source has a unit normal n / |n|.  For points with
\* integer coordinates the plane with the integer normal n and |n| below
\* 1 / Epsilon classifies every point as the unit plane does, and
\* calcEdgeIntersection does not change when normal and distance are
\* multiplied by |n|, so the planes are given by n.
\* ------------------------------------------------------------------------
MaxClipExtent   == 3    \* half the width of the box of the rough portal
MaxClipNormal   == 2    \* largest component of a polygon normal
MinClipDistance == 4    \* smallest plane distance of a polygon
MaxClipDistance == 6    \* largest plane distance of a polygon
MaxClips        == 5    \* polygons of the leaf that cross the portal

ClipPortal  == 1
ClipPolygon == 1

ClipBounds ==
    {[mins |-> Vec3(-h, -h, -1), maxs |-> Vec3(h, h, 1)] : h \in 1..MaxClipExtent}

\* The walls of a room around the origin: upright planes, oblique to the
\* axes, with the origin in front.
ClipPlanes ==
    {[normal |-> Vec3(a, b, 0), distance |-> d] :
        a \in ((-MaxClipNormal)..MaxClipNormal) \ {0},
        b \in ((-MaxClipNormal)..MaxClipNormal) \ {0},
        d \in MinClipDistance..MaxClipDistance}

InitClip ==
    /\ InitMem
    /\ model  = [l \in ListIds |-> <<>>]
    /\ lastOp = [op |-> "none", arg |-> NULL, ret |-> NULL, pre |-> <<>>]
    /\ vertexes = <<>>
    /\ polygons = [p \in PolyIds |-> NewPolygon]
    /\ polygonPoolAlloc = EmptyPool
    /\ bspNodes = [n \in ListIds |-> NewBspNode]
    /\ bspNodePoolAlloc = EmptyPool
    /\ bspRoot = NULL
    /\ bspLeafCount = 0
    /\ bspPartitionCount = 0
    /\ bspLeafNodes = <<>>
    /\ bspPartitionNodes = <<>>
    /\ g_nPolys = [s \in {OnPlane, BackSide, FrontSide, Spanning} |-> 0]
    /\ stack = <<>>
    /\ trail = [op |-> "none", turns |-> 0]
    /\ portalMem = InitPortalMem
    /\ portalPoolAlloc = [EmptyPortalPool EXCEPT !.allocCount = 1, !.objectCount = 1,
                                                 !.poolBlockCount = 1, !.fresh = 1]
    /\ bspPortalCount = 0
    /\ g_nFrameNumber = 0
    /\ frame = [op |-> "none"]
    /\ g_bBuildBspTree = TRUE
    /\ g_bRenderUseBsp = TRUE
    /\ bounds \in ClipBounds
    /\ \E facing \in {1, -1} :
       \E shape \in {makeLargePortal(bounds, [normal |-> Vec3(0, 0, facing), distance |-> 0])} :
           /\ ~shape.inexact
           /\ portals = [p \in PortalIds |->
                            IF p = ClipPortal
                            THEN [NewPortal EXCEPT !.verts = shape.verts,
                                                   !.plane = shape.plane]
                            ELSE NewPortal]
    /\ pc = "clip"
    /\ input = <<>>

\* One turn of the loop of clipPortalToLeaf, for a polygon whose plane the
\* portal spans (a turn for any other polygon changes nothing).
ClipTurn ==
    /\ pc = "clip"
    /\ trail.turns < MaxClips
    /\ \E plane \in ClipPlanes :
       /\ classifyPortal(portals[ClipPortal], plane) = Spanning
       /\ \E w \in {ClipLoop([W EXCEPT !.polygons[ClipPolygon].plane = plane],
                             ClipPortal, <<ClipPolygon>>, 1)} :
              /\ ~w.inexact
              /\ SetWorld([w EXCEPT !.polygons = polygons])
              /\ pc' = PcAfter(w, "clip")
    /\ trail' = [op |-> "clip", turns |-> trail.turns + 1]
    /\ UNCHANGED <<model, lastOp, bspRoot, bspLeafNodes, bspPartitionNodes, stack, input,
                   frameVars>>

NextClip == ClipTurn

SpecClip == InitClip /\ [][NextClip]_vars

\* ------------------------------------------------------------------------
\* The claims.
\* ------------------------------------------------------------------------

\* The BSP nodes and polygons in use.
LiveNodes == 1..bspNodePoolAlloc.objectCount

LivePolygons == 1..polygonPoolAlloc.objectCount

Leaves == {n \in LiveNodes : bspNodes[n].isLeaf}

Partitions == {n \in LiveNodes : ~bspNodes[n].isLeaf}

Occurrences(s, x) == Cardinality({i \in DOMAIN s : s[i] = x})

RECURSIVE Subtree(_, _)
Subtree(n, d) ==
    IF n = NULL \/ d = 0 THEN {}
    ELSE IF bspNodes[n].isLeaf THEN {n}
    ELSE {n} \cup Subtree(bspNodes[n].frontNode, d - 1)
             \cup Subtree(bspNodes[n].backNode, d - 1)

RECURSIVE SumCount(_)
SumCount(S) ==
    IF S = {} THEN 0
    ELSE LET n == CHOOSE x \in S : TRUE IN count[n] + SumCount(S \ {n})

Members(l) == Range(Traverse(Mem, l)) \ {NULL}

\* C3: after a build every live polygon is a member of exactly one leaf's
\* polygon list, reached exactly once by that list's forward traversal, no
\* polygon is in two lists, and every partition node's list is empty.
C3_PolygonsInOneLeaf ==
    pc = "built" =>
        /\ \A poly \in LivePolygons :
              /\ Cardinality({l \in Leaves : poly \in Members(l)}) = 1
              /\ \A l \in Leaves : Occurrences(Traverse(Mem, l), poly) <= 1
        /\ \A l \in Leaves : NULL \notin Range(Traverse(Mem, l))
        /\ \A n \in Partitions : empty(Mem, n)

\* C4: in a built tree every polygon of a leaf's list is on the plane or on
\* the side of the child the path descends through, for every partition
\* node above the leaf, and never spans such a plane.
C4_LeafPolygonsOneSided ==
    pc = "built" =>
        \A a \in Partitions : \A l \in Leaves : \A poly \in Members(l) :
            /\ l \in Subtree(bspNodes[a].frontNode, MaxBspNodes) =>
                   classifyPolygon(bspNodes[a].partition, W, poly) \in {OnPlane, FrontSide}
            /\ l \in Subtree(bspNodes[a].backNode, MaxBspNodes) =>
                   classifyPolygon(bspNodes[a].partition, W, poly) \in {OnPlane, BackSide}

C4_Witness ==
    /\ pc = "built"
    /\ g_nPolys[Spanning] >= 1
    /\ bspPartitionCount >= 2
    /\ \E a \in Partitions : \E l \in Leaves :
          /\ l \in Subtree(bspNodes[a].backNode, MaxBspNodes)
          /\ l # bspNodes[a].backNode
          /\ \E poly \in Members(l) :
                classifyPolygon(bspNodes[a].partition, W, poly) = BackSide

\* C5: the build terminates: a run of createFromPolygons stops only once the
\* recursion has returned from every node, each a leaf or a partition node
\* with two built children; no call of buildBspTreeRecursive fails to return.
C5_BuildTerminates == pc \notin {"start", "bsp"} => pc # "crashed"

\* C6: a spanning polygon is returned to the pool once it is split, so after
\* the build the polygon pool's live objects are the polygons in leaf lists.
C6_SplitPolygonFreed ==
    pc = "built" => polygonPoolAlloc.objectCount = SumCount(Leaves)

\* C7: splitTriangle on a triangle with a vertex strictly in front of and a
\* vertex strictly behind the plane appends 3 triangles when no vertex is on
\* the plane and 2 when one is, at least one to each list, each with three
\* vertices in a slice appended to the vertex array.
C7_SplitCounts ==
    LET partition == bspNodes[SplitNode].partition
        cls       == classifyTriangleVerts(partition, W, 1)
        created   == 2..polygonPoolAlloc.objectCount
        front     == Traverse(Mem, SplitFront)
        back      == Traverse(Mem, SplitBack)
    IN  (pc = "split_done" /\ HowMany(cls, FrontSide) > 0 /\ HowMany(cls, BackSide) > 0) =>
            /\ ~fault
            /\ Len(front) >= 1
            /\ Len(back) >= 1
            /\ Len(front) + Len(back) = IF HowMany(cls, OnPlane) = 0 THEN 3 ELSE 2
            /\ Range(front) \cup Range(back) = created
            /\ Cardinality(created) = Len(front) + Len(back)
            /\ \A p \in created :
                  /\ polygons[p].vertexCount = 3
                  /\ polygons[p].firstVertex = 3 * (p - 1)
                  /\ polygons[p].firstVertex + polygons[p].vertexCount <= Len(vertexes)

C7_Witness ==
    /\ pc = "split_done"
    /\ HowMany(classifyTriangleVerts(bspNodes[SplitNode].partition, W, 1), OnPlane) = 1
    /\ count[SplitFront] = 1
    /\ count[SplitBack] = 1
    /\ polygonPoolAlloc.objectCount = 3

\* C8: a polygon on the partition plane goes to the front child when its
\* normal faces the way of the partition's normal and to the back child when
\* it faces the other way, whatever the plane's distance from the origin.
C8_OnPlaneByFacing ==
    trail.op = "build" =>
        \A r \in trail.onPlane :
            /\ dot(r.normal, r.partition.normal) > 0 => r.child = "front"
            /\ dot(r.normal, r.partition.normal) < 0 => r.child = "back"

\* C9: selectPartitionfromList returns no polygon (and the node becomes a
\* leaf with its list unchanged) exactly when every candidate has no vertex
\* in front or none behind; otherwise it returns a candidate that minimises
\* |frontCount - backCount| over all candidates, whose plane becomes the
\* node's partition.
Imbalance(list, cand) ==
    Abs(CountSide(W, polygons[cand].plane, list, FrontSide)
        - CountSide(W, polygons[cand].plane, list, BackSide))

SplitsNothing(list, cand) ==
    \/ CountSide(W, polygons[cand].plane, list, FrontSide) = 0
    \/ CountSide(W, polygons[cand].plane, list, BackSide) = 0

C9_SelectPartition ==
    (trail.op = "build" /\ ~WalkFaults(trail.list)) =>
        LET list == trail.list
            best == trail.partitionPolygon
            node == trail.node
        IN  /\ (best = NULL) <=> (\A i \in DOMAIN list : SplitsNothing(list, list[i]))
            /\ (best = NULL) <=> bspNodes[node].isLeaf
            /\ best = NULL => Traverse(Mem, node) = list
            /\ best # NULL =>
                  /\ best \in Range(list)
                  /\ \A i \in DOMAIN list : Imbalance(list, best) <= Imbalance(list, list[i])
                  /\ bspNodes[node].partition = polygons[best].plane

C9_Witness ==
    /\ trail.op = "build"
    /\ ~WalkFaults(trail.list)
    /\ trail.partitionPolygon # NULL
    /\ Len(trail.list) = 3
    /\ \E i \in DOMAIN trail.list : SplitsNothing(trail.list, trail.list[i])
    /\ \E i \in DOMAIN trail.list :
          Imbalance(trail.list, trail.list[i]) > Imbalance(trail.list, trail.partitionPolygon)

\* C10: after a build the leaf ids are exactly 1..bspLeafCount and the
\* partition ids exactly 1..bspPartitionCount, each used once, no node keeps
\* id 0, and gatherBspNodeLists has filled the two vectors with exactly the
\* leaves and the partition nodes.
C10_NodeIds ==
    pc = "built" =>
        /\ {bspNodes[n].id : n \in Leaves} = 1..bspLeafCount
        /\ Cardinality(Leaves) = bspLeafCount
        /\ {bspNodes[n].id : n \in Partitions} = 1..bspPartitionCount
        /\ Cardinality(Partitions) = bspPartitionCount
        /\ \A n \in Subtree(bspRoot, MaxBspNodes) : bspNodes[n].id # 0
        /\ Subtree(bspRoot, MaxBspNodes) = LiveNodes
        /\ Len(bspLeafNodes) = bspLeafCount
        /\ Range(bspLeafNodes) = Leaves
        /\ Len(bspPartitionNodes) = bspPartitionCount
        /\ Range(bspPartitionNodes) = Partitions

C10_Witness ==
    /\ pc = "built"
    /\ bspLeafCount >= 3
    /\ bspPartitionCount >= 2
    /\ Len(bspLeafNodes) = bspLeafCount

\* The portals a leaf's list holds: those its forward traversal reaches.
PortalMembers(l) == Range(Traverse(portalMem, l)) \ {NULL}

\* findTruePortalsRecursive has returned from the root.
PortalsBuilt == pc = "ready" \/ (pc = "linked" /\ stack = <<>>)

\* C11: after findTruePortalsRecursive every portal in a leaf's portal list
\* has a front leaf and a back leaf, both leaves of the tree and not the
\* same leaf.
C11_PortalLeaves ==
    PortalsBuilt =>
        \A l \in Leaves : \A p \in PortalMembers(l) :
            /\ portals[p].frontLeaf # NULL
            /\ portals[p].backLeaf # NULL
            /\ portals[p].frontLeaf \in Leaves
            /\ portals[p].backLeaf \in Leaves
            /\ portals[p].frontLeaf # portals[p].backLeaf

C11_Witness ==
    /\ pc = "ready"
    /\ bspLeafCount >= 3
    /\ \E l \in Leaves : Cardinality(PortalMembers(l)) >= 2
    /\ \E l \in Leaves : PortalMembers(l) = {}

\* C12 as the specification states it: every surviving portal's backLeaf is
\* the leaf whose portal list holds it.
C12_BackLeafOwns ==
    PortalsBuilt =>
        \A l \in Leaves : \A p \in PortalMembers(l) : portals[p].backLeaf = l

\* C12, amended: every surviving portal's frontLeaf is the leaf whose portal
\* list holds it, and its backLeaf is another leaf, the one a walk through
\* the portal enters.
C12_FrontLeafOwns ==
    PortalsBuilt =>
        \A l \in Leaves : \A p \in PortalMembers(l) :
            /\ portals[p].frontLeaf = l
            /\ portals[p].backLeaf # l

C12_Witness ==
    /\ pc = "ready"
    /\ \E l \in Leaves : \E p \in PortalMembers(l) :
          /\ portals[p].frontLeaf = l
          /\ portals[p].backLeaf \in Leaves \ {l}
          /\ \E q \in PortalMembers(portals[p].backLeaf) :
                /\ portals[q].id = portals[p].id
                /\ portals[q].backLeaf = l
                /\ portals[q].plane.normal = Negate(portals[p].plane.normal)

\* C13 as the specification states it: the second loop of
\* findTruePortalsRecursive removes a portal exactly when most of the
\* polygon planes of its back leaf classify the inverted portal FrontSide.
C13_PrunedByMajority ==
    trail.op = "truePortals" =>
        \A r \in trail.extra :
            r.removed <=> 2 * HowMany(r.verdicts, FrontSide) > Len(r.verdicts)

\* C13, amended: the second loop of findTruePortalsRecursive keeps a portal
\* exactly when every polygon plane of its back leaf classifies the
\* inverted portal FrontSide (so also when the back leaf has no polygon),
\* and removes it from the leaf's list otherwise.
C13_KeptWhenAllInFront ==
    (trail.op = "truePortals" /\ pc = "linked") =>
        \A r \in trail.extra :
            /\ ~r.removed <=> \A i \in DOMAIN r.verdicts : r.verdicts[i] = FrontSide
            /\ ~r.removed <=> r.portal \in PortalMembers(r.leaf)
            /\ Len(r.verdicts) = count[r.backLeaf]

C13_Witness ==
    /\ trail.op = "truePortals"
    /\ pc = "linked"
    /\ \E r \in trail.extra :
          /\ ~r.removed
          /\ Len(r.verdicts) >= 2
          /\ r.portal \in PortalMembers(r.leaf)
    /\ \E r \in trail.extra :
          /\ r.removed
          /\ Len(r.verdicts) >= 2
          /\ r.portal \notin PortalMembers(r.leaf)

\* C14: after the splitting loop of buildPortals no portal of allPortals
\* spans the plane of a partition node, and addPortalToBspNodeRecursive
\* never takes its default branch.
C14_NoSpanningPortal ==
    /\ pc = "split" =>
          \A p \in PortalMembers(AllPortals) : \A n \in Partitions :
              classifyPortal(portals[p], bspNodes[n].partition) # Spanning
    /\ trail.op = "addPortals" => ~trail.spanning

C14_Witness ==
    /\ pc = "split"
    /\ bspPartitionCount >= 2
    /\ size(portalMem, AllPortals) > bspPartitionCount
    /\ \E p \in PortalMembers(AllPortals) : \E n \in Partitions :
          classifyPortal(portals[p], bspNodes[n].partition) = BackSide


\* C15 (SpecClip, SpecBuild): wherever portal construction stands, no call
\* of splitPortal has written more than Portal::MaxVerts points or fewer
\* than three into an output, and every portal in use has between 3 and
\* Portal::MaxVerts vertices.
C15_PortalFitsMaxVerts ==
    /\ pc # "undefined"
    /\ \A p \in PortalIds :
          portals[p].verts # <<>> =>
              (Len(portals[p].verts) >= 3 /\ Len(portals[p].verts) <= PortalMaxVerts)


\* ------------------------------------------------------------------------
\* Frames (SpecView).  frame is the record of the last call of
\* onFrameRender: frame.number is g_nFrameNumber as the call found it.
\* ------------------------------------------------------------------------

\* The last frame ran computePotentiallyVisibleSet.
BspFrame == frame.op = "frame" /\ frame.useBsp

\* The last frame returned from render.
FrameRendered == frame.op = "frame" /\ pc = "ready"

\* The place of a leaf in the order renderBspTreeRecursive reached them.
VisitIndex(leaf) == CHOOSE i \in DOMAIN frame.visited : frame.visited[i].leaf = leaf

\* C16: after computePotentiallyVisibleSet(eye, frustum, leaf) the eye leaf
\* has visFrame = g_nFrameNumber whatever the frustum, and in a tree of a
\* single leaf countVisibleLeaves returns 1.
C16_EyeLeafMarked ==
    (BspFrame /\ frame.currentLeaf # NULL) =>
        /\ bspNodes[frame.currentLeaf].visFrame = frame.number
        /\ (FrameRendered /\ Len(bspLeafNodes) = 1) => frame.numVisLeaves = 1

C16_Witness ==
    /\ BspFrame /\ FrameRendered
    /\ frame.number = 1
    /\ Len(bspLeafNodes) = 1
    /\ frame.currentLeaf = bspLeafNodes[1]
    /\ frame.numVisLeaves = 1

\* C17: in every frame, the first after a build included, a leaf has
\* visFrame = g_nFrameNumber, is counted by countVisibleLeaves and is
\* drawn by renderBspTreeRecursive only if computePotentiallyVisibleSet
\* marked it in that frame.
C17_VisibleOnlyIfMarked ==
    (BspFrame /\ FrameRendered) =>
        /\ \A i \in DOMAIN bspLeafNodes :
               bspNodes[bspLeafNodes[i]].visFrame = frame.number
                   => bspLeafNodes[i] \in frame.marked
        /\ frame.numVisLeaves = Cardinality(frame.marked)
        /\ \A i \in DOMAIN frame.visited :
               frame.visited[i].drawn => frame.visited[i].leaf \in frame.marked

\* C18: computePotentiallyVisibleSet with findVisibleLeavesRecursive
\* returns for every tree and portal set, also when three or more leaves
\* are adjacent in a cycle: no call of findVisibleLeavesRecursive is
\* entered again with its own arguments while it is still running.
C18_PvsTerminates == pc # "frame_overflow"

\* C19: on the BSP path renderBspTreeRecursive reaches every leaf of the
\* tree exactly once, draws a leaf if and only if its visFrame equals
\* g_nFrameNumber, and at a partition node reaches the leaves of the back
\* child before those of the front child if the eye is FrontSide of the
\* partition, and the other way round otherwise.
C19_RenderOrder ==
    (BspFrame /\ FrameRendered) =>
        /\ Len(frame.visited) = Cardinality(Leaves)
        /\ \A l \in Leaves : Occurrences([i \in DOMAIN frame.visited |->
                                               frame.visited[i].leaf], l) = 1
        /\ \A i \in DOMAIN frame.visited :
               frame.visited[i].drawn <=>
                   bspNodes[frame.visited[i].leaf].visFrame = frame.number
        /\ \A n \in Partitions :
               \A a \in Subtree(bspNodes[n].frontNode, MaxBspNodes) \cap Leaves :
               \A b \in Subtree(bspNodes[n].backNode, MaxBspNodes) \cap Leaves :
                   (VisitIndex(b) < VisitIndex(a))
                       <=> classifyPoint(bspNodes[n].partition, frame.eye) = FrontSide

C19_Witness ==
    /\ BspFrame /\ FrameRendered
    /\ Cardinality(Leaves) >= 3
    /\ \E n \in Partitions : classifyPoint(bspNodes[n].partition, frame.eye) = FrontSide
    /\ \E n \in Partitions : classifyPoint(bspNodes[n].partition, frame.eye) = BackSide
    /\ \E i, j \in DOMAIN frame.visited :
           frame.visited[i].drawn /\ ~frame.visited[j].drawn

\* C20: every call of render that returns adds exactly one to
\* g_nFrameNumber, on the BSP path and on the flat path, and no other step
\* (RenderData::cleanup, createFromPolygons and the build) changes it.
C20_FrameCounted ==
    [][IF frame' # frame /\ frame'.op = "frame" /\ pc' = "ready"
       THEN g_nFrameNumber' = g_nFrameNumber + 1
       ELSE g_nFrameNumber' = g_nFrameNumber]_vars

C20_Witness ==
    /\ FrameRendered
    /\ ~frame.useBsp
    /\ frame.number = 1
    /\ g_nFrameNumber = 2


\* C26 (SpecList): first() returns null if and only if the list is empty;
\* after pop_front, pop_back or remove took the last member out, head is
\* null again and does not point at the removed node.
C26_FirstNullIffEmpty ==
    ~fault => (first(Mem, L1) = NULL <=> empty(Mem, L1))


\* ------------------------------------------------------------------------
\* Specification SpecLists: two lists (lists 1 and 2) that share the nodes
\* 1..MaxListNodes, under every sequence of their operations, clear()
\* included.  A node is pushed only while it is a member of neither list, as
\* buildBspTreeRecursive pushes a polygon it has popped from the list of
\* the node onto the list of a child.
\* ------------------------------------------------------------------------
L2 == 2

MaxSharedNodes == 3
MaxListTurns   == 7

SharedNodes == 1..MaxSharedNodes

TwoLists == {L1, L2}

InitLists ==
    /\ InitMem
    /\ model  = [l \in ListIds |-> <<>>]
    /\ lastOp = [op |-> "none", list |-> NULL, arg |-> NULL, ret |-> NULL, pre |-> <<>>,
                turns |-> 0]
    /\ InitWorld
    /\ pc = "lists"
    /\ input = <<>>

Unlinked(node) == \A l \in TwoLists : node \notin Range(model[l])

PushFrontOn(l, node) ==
    /\ ~fault
    /\ lastOp.turns < MaxListTurns
    /\ Unlinked(node)
    /\ SetMem(push_front(Mem, l, node))
    /\ model' = [model EXCEPT ![l] = <<node>> \o @]
    /\ lastOp' = [op |-> "push_front", list |-> l, arg |-> node, ret |-> NULL,
                  pre |-> model[l], turns |-> lastOp.turns + 1]
    /\ UNCHANGED worldVars

PushBackOn(l, node) ==
    /\ ~fault
    /\ lastOp.turns < MaxListTurns
    /\ Unlinked(node)
    /\ SetMem(push_back(Mem, l, node))
    /\ model' = [model EXCEPT ![l] = Append(@, node)]
    /\ lastOp' = [op |-> "push_back", list |-> l, arg |-> node, ret |-> NULL,
                  pre |-> model[l], turns |-> lastOp.turns + 1]
    /\ UNCHANGED worldVars

PopFrontOf(l) ==
    /\ ~fault
    /\ lastOp.turns < MaxListTurns
    /\ \E r \in {pop_front(Mem, l)} :
          /\ SetMem(r.mem)
          /\ lastOp' = [op |-> "pop_front", list |-> l, arg |-> NULL, ret |-> r.node,
                        pre |-> model[l], turns |-> lastOp.turns + 1]
    /\ model' = [model EXCEPT ![l] = IF @ = <<>> THEN <<>> ELSE Tail(@)]
    /\ UNCHANGED worldVars

PopBackOf(l) ==
    /\ ~fault
    /\ lastOp.turns < MaxListTurns
    /\ \E r \in {pop_back(Mem, l)} :
          /\ SetMem(r.mem)
          /\ lastOp' = [op |-> "pop_back", list |-> l, arg |-> NULL, ret |-> r.node,
                        pre |-> model[l], turns |-> lastOp.turns + 1]
    /\ model' = [model EXCEPT ![l] = ButLast(@)]
    /\ UNCHANGED worldVars

RemoveFrom(l, node) ==
    /\ ~fault
    /\ lastOp.turns < MaxListTurns
    /\ node \in Range(model[l])
    /\ SetMem(remove(Mem, l, node))
    /\ model' = [model EXCEPT ![l] = Without(@, node)]
    /\ lastOp' = [op |-> "remove", list |-> l, arg |-> node, ret |-> NULL,
                  pre |-> model[l], turns |-> lastOp.turns + 1]
    /\ UNCHANGED worldVars

Clear(l) ==
    /\ ~fault
    /\ lastOp.turns < MaxListTurns
    /\ SetMem(clear(Mem, l))
    /\ model' = [model EXCEPT ![l] = <<>>]
    /\ lastOp' = [op |-> "clear", list |-> l, arg |-> NULL, ret |-> NULL,
                  pre |-> model[l], turns |-> lastOp.turns + 1]
    /\ UNCHANGED worldVars

NextLists ==
    \/ \E l \in TwoLists, node \in SharedNodes : PushFrontOn(l, node)
    \/ \E l \in TwoLists, node \in SharedNodes : PushBackOn(l, node)
    \/ \E l \in TwoLists : PopFrontOf(l)
    \/ \E l \in TwoLists : PopBackOf(l)
    \/ \E l \in TwoLists, node \in SharedNodes : RemoveFrom(l, node)
    \/ \E l \in TwoLists : Clear(l)

SpecLists == InitLists /\ [][NextLists]_vars

\* C27 (SpecLists): push_front, push_back, pop_front, pop_back and remove
\* on a list write prev and next only of the node passed or returned and of
\* the members of that list; the links of an unlinked node and of a member
\* of the other list stay as they were.
C27_WritesOwnList ==
    [][lastOp'.op \in {"push_front", "push_back", "pop_front", "pop_back", "remove"}
          => \A x \in SharedNodes :
                x \notin (Range(lastOp'.pre) \cup {lastOp'.arg, lastOp'.ret})
                    => (next'[x] = next[x] /\ prev'[x] = prev[x])]_vars

\* C28 (SpecLists): after clear() the list is empty: size() is 0, empty()
\* is true, first() is null and every former member has prev and next
\* null, whatever the size of the list was, zero included.
C28_ClearEmpties ==
    (lastOp.op = "clear" /\ ~fault) =>
        /\ size(Mem, lastOp.list) = 0
        /\ empty(Mem, lastOp.list)
        /\ first(Mem, lastOp.list) = NULL
        /\ \A x \in Range(lastOp.pre) : prev[x] = NULL /\ next[x] = NULL


\* C21 (SpecView): RenderData::cleanup followed by createFromPolygons on
\* the triangles of the first build gives the bspLeafCount,
\* bspPartitionCount and bspPortalCount and the lengths of bspLeafNodes and
\* bspPartitionNodes of the first build.
Rebuilt == pc = "ready" /\ frame.op = "none" /\ "discarded" \in DOMAIN frame

C21_SameShape == Rebuilt => WorldShape = frame.discarded

C21_Witness ==
    /\ Rebuilt
    /\ bspLeafCount >= 3
    /\ bspPartitionCount >= 2
    /\ bspPortalCount >= 5
    /\ g_nFrameNumber > 0


\* ------------------------------------------------------------------------
\* The portal graph buildPortals leaves behind
\* ------------------------------------------------------------------------

\* The leaf on the other side of a portal held in the list of a leaf.
OtherLeaf(p, leaf) ==
    IF portals[p].frontLeaf = leaf THEN portals[p].backLeaf ELSE portals[p].frontLeaf

\* C30 (SpecBuild): after buildPortals the portal graph is symmetric: for
\* every portal in the list of leaf A whose other leaf is B, the list of
\* leaf B holds a portal with the same id whose other leaf is A.
C30_PortalGraphSymmetric ==
    pc = "ready" =>
        \A a \in Leaves : \A p \in PortalMembers(a) :
            OtherLeaf(p, a) \in Leaves =>
                \E q \in PortalMembers(OtherLeaf(p, a)) :
                    /\ portals[q].id = portals[p].id
                    /\ OtherLeaf(q, OtherLeaf(p, a)) = a


\* ------------------------------------------------------------------------
\* The calls of findVisibleLeavesRecursive in a frame
\* ------------------------------------------------------------------------

\* A call made inside findVisibleLeavesRecursive, not by
\* computePotentiallyVisibleSet.
Nested(c) == c.entered # {}

\* C25 (SpecView): findVisibleLeavesRecursive never recurses through a
\* portal of the current leaf whose backLeaf is the leaf it was entered
\* from (the parentId), and each recursive call passes the id of the leaf
\* just marked as the new parentId.
C25_NeverBackToParent ==
    BspFrame =>
        \A c \in frame.calls :
            /\ Nested(c) => bspNodes[portals[c.through].backLeaf].id \notin c.entered
            /\ c.leaf \in frame.marked
            /\ c.parentId = bspNodes[c.leaf].id

\* A nested call was made from a leaf whose list also holds a portal that
\* leads back to the parent, and that portal was not entered.
C25_Witness ==
    /\ BspFrame /\ FrameRendered
    /\ \E c \in frame.calls :
          /\ Nested(c)
          /\ \E p \in PortalMembers(c.leaf) :
                /\ bspNodes[portals[p].backLeaf].id \in c.entered
                /\ \A d \in frame.calls : d.leaf = c.leaf => d.through # p


\* ------------------------------------------------------------------------
\* Pool<T, Granularity> (pool.hpp) on its own
\*
\* A pool is the record portalPoolAlloc; its field fresh is not used here.
\* Block b holds the slots (b - 1) * granularity + 1 .. b * granularity.
\* ------------------------------------------------------------------------
PoolGranularity == 2    \* slots in a block
MaxPoolBlocks   == 3    \* blocks a pool may hold
MaxPoolAllocs   == 6    \* calls of allocate between two calls of drain

PoolSlots == 1..(MaxPoolBlocks * PoolGranularity)

\* The free list after the loop that threads a new block: objects[0] is
\* pushed first, so the last object of the block is at the head.
NewBlockFreeList(block, granularity) ==
    [i \in 1..granularity |-> block * granularity + 1 - i]

\* An allocate that hands out the head of the free list and leaves it there.
allocate_KeepHead(pool, granularity) ==
    LET Fetch(p) ==
            [pool   |-> [p EXCEPT !.allocCount = @ + 1, !.objectCount = @ + 1],
             object |-> Head(p.freeList)]
    IN  IF pool.freeList = <<>>
        THEN Fetch([pool EXCEPT !.poolBlockCount = @ + 1,
                                !.freeList = NewBlockFreeList(pool.poolBlockCount + 1,
                                                              granularity)])
        ELSE Fetch(pool)

\* Pool::allocate: the pool after the call and the object returned.
allocate(pool, granularity) ==
    LET Fetch(p) ==
            [pool   |-> [p EXCEPT !.allocCount = @ + 1, !.objectCount = @ + 1,
                                  !.freeList = Tail(@)],
             object |-> Head(p.freeList)]
    IN  IF pool.freeList = <<>>
        THEN Fetch([pool EXCEPT !.poolBlockCount = @ + 1,
                                !.freeList = NewBlockFreeList(pool.poolBlockCount + 1,
                                                              granularity)])
        ELSE Fetch(pool)

\* Pool::deallocate(ptr): the pool after the call, and whether
\* assert(objectCount != 0) failed.
deallocate(pool, ptr) ==
    IF pool.objectCount = 0 THEN [pool |-> pool, asserted |-> TRUE]
    ELSE IF ptr = NULL THEN [pool |-> pool, asserted |-> FALSE]
    ELSE [pool     |-> [pool EXCEPT !.freeList = <<ptr>> \o @, !.objectCount = @ - 1],
          asserted |-> FALSE]

\* Pool::drain.
drain(pool) ==
    [pool EXCEPT !.freeList = <<>>, !.allocCount = 0, !.objectCount = 0,
                 !.poolBlockCount = 0]

\* The slots handed out and not given back (specification side).
PoolLive == IF "live" \in DOMAIN trail THEN trail.live ELSE {}

InitPool ==
    /\ InitMem
    /\ model  = [l \in ListIds |-> <<>>]
    /\ lastOp = [op |-> "none", arg |-> NULL, ret |-> NULL, pre |-> <<>>]
    /\ InitWorld
    /\ pc = "pool"
    /\ input = <<>>

poolFrame == <<listVars, vertexes, polygons, polygonPoolAlloc, bspNodes, bspNodePoolAlloc,
               bspRoot, bspLeafCount, bspPartitionCount, bspLeafNodes,
               bspPartitionNodes, g_nPolys, stack, input, bounds, portals, portalMem,
               bspPortalCount, g_nFrameNumber, frame, flagVars>>

Allocate ==
    /\ pc = "pool"
    /\ portalPoolAlloc.allocCount < MaxPoolAllocs
    /\ portalPoolAlloc.freeList = <<>> => portalPoolAlloc.poolBlockCount < MaxPoolBlocks
    /\ \E r \in {allocate(portalPoolAlloc, PoolGranularity)} :
          /\ portalPoolAlloc' = r.pool
          /\ trail' = [op |-> "allocate", ptr |-> NULL, ret |-> r.object,
                       pre |-> portalPoolAlloc, liveBefore |-> PoolLive,
                       live |-> PoolLive \cup {r.object}]
    /\ UNCHANGED <<pc, poolFrame>>

\* deallocate of a live slot, or of the null pointer.
Deallocate(ptr) ==
    /\ pc = "pool"
    /\ \E r \in {deallocate(portalPoolAlloc, ptr)} :
          /\ portalPoolAlloc' = r.pool
          /\ pc' = IF r.asserted THEN "pool_asserted" ELSE "pool"
          /\ trail' = [op |-> "deallocate", ptr |-> ptr, ret |-> NULL,
                       pre |-> portalPoolAlloc, liveBefore |-> PoolLive,
                       live |-> PoolLive \ {ptr}]
    /\ UNCHANGED poolFrame

Drain ==
    /\ pc = "pool"
    /\ portalPoolAlloc' = drain(portalPoolAlloc)
    /\ trail' = [op |-> "drain", ptr |-> NULL, ret |-> NULL, pre |-> portalPoolAlloc,
                 liveBefore |-> PoolLive, live |-> {}]
    /\ UNCHANGED <<pc, poolFrame>>

NextPool ==
    \/ Allocate
    \/ \E ptr \in PoolLive : Deallocate(ptr)
    \/ Deallocate(NULL)
    \/ Drain

SpecPool == InitPool /\ [][NextPool]_vars

\* C23 (SpecPool): Pool::allocate returns a slot that is not live, for any
\* sequence of allocate and deallocate calls that frees a live slot at
\* most once; it adds a block of Granularity slots exactly when the free
\* list is empty; live slots plus free slots equal getSize() * Granularity.
C23_PoolAccounting ==
    /\ trail.op = "allocate" =>
          /\ trail.ret \in PoolSlots \ trail.liveBefore
          /\ IF trail.pre.freeList = <<>>
             THEN portalPoolAlloc.poolBlockCount = trail.pre.poolBlockCount + 1
             ELSE portalPoolAlloc.poolBlockCount = trail.pre.poolBlockCount
    /\ Cardinality(PoolLive) + Len(portalPoolAlloc.freeList)
           = portalPoolAlloc.poolBlockCount * PoolGranularity
    /\ portalPoolAlloc.objectCount = Cardinality(PoolLive)

\* allocate took a recycled slot from the free list of a pool of two blocks.
C23_Witness ==
    /\ trail.op = "allocate"
    /\ portalPoolAlloc.poolBlockCount >= 2
    /\ trail.pre.freeList # <<>>
    /\ trail.pre.allocCount > trail.pre.objectCount
    /\ Cardinality(PoolLive) > PoolGranularity

\* C24 (SpecPool): Pool::deallocate(nullptr) is a no-op in every pool
\* state, a pool with no live objects included: no assertion fails and the
\* free list and the counters are as before.
C24_DeallocateNullNoOp ==
    (trail.op = "deallocate" /\ trail.ptr = NULL) =>
        /\ pc # "pool_asserted"
        /\ portalPoolAlloc = trail.pre


\* ------------------------------------------------------------------------
\* createFromDatafile and the keys of WorldBspApp
\*
\* A data file is whether fopen succeeds, its tokens, the places of the
\* tokens fscanf cannot convert (bad), and whether white space follows the
\* last token.
\* ------------------------------------------------------------------------
ValuesPerVertex == 5    \* x y z u v

DefaultScale == 1

VertexText(v) == <<v[1], v[2], v[3], 0, 0>>

TriangleText(t) == VertexText(t[1]) \o VertexText(t[2]) \o VertexText(t[3])

RECURSIVE SceneBody(_, _)
SceneBody(scene, i) ==
    IF i > Len(scene) THEN <<>> ELSE TriangleText(scene[i]) \o SceneBody(scene, i + 1)

\* The file of a scene: the polygon count, then the values of each vertex.
SceneText(scene) == <<Len(scene)>> \o SceneBody(scene, 1)

\* The file of a scene, and files that cannot be opened, have no count or
\* a count <= 0, hold a value that cannot be read, or are cut short.
DataFiles(scene) ==
    LET File(opened, text, bad, spaceAtEnd) ==
            [opened |-> opened, text |-> text, bad |-> bad, spaceAtEnd |-> spaceAtEnd]
        Files(good) ==
               {File(TRUE, good, {}, b) : b \in BOOLEAN}
          \cup {File(FALSE, good, {}, TRUE)}
          \cup {File(TRUE, <<>>, {}, FALSE)}
          \cup {File(TRUE, good, {1}, TRUE)}
          \cup {File(TRUE, <<c>> \o Tail(good), {}, TRUE) : c \in {0, -1}}
          \cup {File(TRUE, good, {k}, TRUE) : k \in {2, Len(good)}}
          \cup {File(TRUE, SubSeq(good, 1, k), {}, b) :
                    k \in {1, 9, 3 * ValuesPerVertex + 1, Len(good) - 1} \cap 1..Len(good),
                    b \in BOOLEAN}
    IN  Files(SceneText(scene))

\* fscanf(fileIn, "%i" or "%f", &x) == 1 for the token at pos.
Readable(file, pos) == pos \in DOMAIN file.text /\ pos \notin file.bad

\* feof(fileIn) once the token at pos has been read.
AtEof(file, pos) == pos >= Len(file.text) /\ ~file.spaceAtEnd

\* poly.verts[v] after the loop over e, and the scaling, for the vertex
\* whose values follow the token at pos.
ReadVertex(file, pos, scale) ==
    <<file.text[pos + 1] * scale, file.text[pos + 2] * scale, file.text[pos + 3] * scale>>

\* The loop of createFromDatafile over the polygons, after the token at
\* pos: whether a value could not be read, polysRead and worldPolys.
RECURSIVE ReadPolys(_, _, _, _, _)
ReadPolys(file, polyCount, scale, pos, worldPolys) ==
    IF Len(worldPolys) < polyCount /\ ~AtEof(file, pos)
    THEN IF \E k \in 1..(3 * ValuesPerVertex) : ~Readable(file, pos + k)
         THEN [unreadable |-> TRUE, polysRead |-> Len(worldPolys), worldPolys |-> worldPolys]
         ELSE ReadPolys(file, polyCount, scale, pos + 3 * ValuesPerVertex,
                        Append(worldPolys,
                               [v \in 1..3 |->
                                   ReadVertex(file, pos + (v - 1) * ValuesPerVertex, scale)]))
    ELSE [unreadable |-> FALSE, polysRead |-> Len(worldPolys), worldPolys |-> worldPolys]

\* A loader that hands the polygons it has read to createFromPolygons
\* before it checks for a truncated file.
createFromDatafile_BuildsThenChecks(w, root, file, scale) ==
    LET Failed == [ok |-> FALSE, world |-> w, root |-> root]
        Built(r, c) == [ok |-> r.polysRead = file.text[1], world |-> c.world, root |-> c.root]
        Done(r) == IF r.unreadable THEN Failed
                   ELSE Built(r, createFromPolygons(w, r.worldPolys))
    IN  IF ~file.opened THEN Failed
        ELSE IF ~Readable(file, 1) THEN Failed
        ELSE IF file.text[1] <= 0 THEN Failed
        ELSE Done(ReadPolys(file, file.text[1], scale, 1, <<>>))

\* createFromDatafile(world, filename, scale): its result, the world and
\* bspRoot (root) it leaves.
createFromDatafile(w, root, file, scale) ==
    LET Failed == [ok |-> FALSE, world |-> w, root |-> root]
        Built(c) == [ok |-> TRUE, world |-> c.world, root |-> c.root]
        Done(r) == IF r.unreadable THEN Failed
                   ELSE IF r.polysRead # file.text[1] THEN Failed
                   ELSE Built(createFromPolygons(w, r.worldPolys))
    IN  IF ~file.opened THEN Failed
        ELSE IF ~Readable(file, 1) THEN Failed
        ELSE IF file.text[1] <= 0 THEN Failed
        ELSE Done(ReadPolys(file, file.text[1], scale, 1, <<>>))

\* WorldBspApp::onInit, and the second half of onKeyChar('n'):
\* createFromDatafile, and errorF (which throws) when it returns false.
CreateFromDatafile ==
    /\ pc = "start"
    /\ \E file \in DataFiles(input) :
       \E r \in {createFromDatafile(W, bspRoot, file, DefaultScale)} :
           /\ ~r.world.overflow
           /\ ~r.world.inexact
           /\ SetWorld(r.world)
           /\ bspRoot' = r.root
           /\ stack' = IF r.ok /\ g_bBuildBspTree THEN <<r.root>> ELSE <<>>
           /\ pc' = IF ~r.ok THEN "terminated"
                    ELSE IF r.world.mem.fault THEN "crashed"
                    ELSE IF g_bBuildBspTree THEN "bsp" ELSE "ready"
           /\ trail' = [op |-> "createFromDatafile", ok |-> r.ok, file |-> file,
                        world |-> W, bspRoot |-> bspRoot]
    /\ UNCHANGED <<model, lastOp, bspLeafNodes, bspPartitionNodes, input, frameVars>>

\* WorldBspApp::onKeyChar('t').
KeyT ==
    /\ pc = "ready"
    /\ g_bBuildBspTree' = ~g_bBuildBspTree
    /\ UNCHANGED <<listVars, vertexes, polygons, polygonPoolAlloc, bspNodes,
                   bspNodePoolAlloc, bspRoot, bspLeafCount, bspPartitionCount,
                   bspLeafNodes, bspPartitionNodes, g_nPolys, pc, stack, input, trail,
                   portalVars, bspPortalCount, g_nFrameNumber, frame, g_bRenderUseBsp>>

NextApp ==
    \/ CreateFromDatafile
    \/ BuildNode
    \/ GatherNodes
    \/ SplitRoughPortals
    \/ AddPortalsToLeaves
    \/ FindTruePortals
    \/ CountPortals
    \/ Frame
    \/ Cleanup
    \/ KeyB
    \/ KeyT

SpecApp == InitView /\ [][NextApp]_vars

\* createFromDatafile has returned false.
LoadFailed == trail.op = "createFromDatafile" /\ ~trail.ok

\* C22 (SpecApp): when createFromDatafile returns false (the file cannot be
\* opened, the polygon count is missing or <= 0, a vertex value cannot be
\* read, or the file is truncated) the RenderData is unchanged: no node,
\* polygon, portal or vertex was allocated and bspRoot keeps its value.
C22_FailedLoadChangesNothing ==
    LoadFailed =>
        /\ W = trail.world
        /\ bspRoot = trail.bspRoot

\* A reload fails on a file that is cut short after its first triangle.
C22_Witness ==
    /\ LoadFailed
    /\ pc = "terminated"
    /\ trail.file.opened
    /\ Len(trail.file.text) = 3 * ValuesPerVertex + 1
    /\ trail.file.text[1] > 1
    /\ "discarded" \in DOMAIN frame
    /\ bspNodePoolAlloc.allocCount = 0

\* The tree under bspRoot is complete.
TreeBuilt ==
    /\ bspRoot # NULL
    /\ \A n \in Subtree(bspRoot, MaxBspNodes) :
          ~bspNodes[n].isLeaf => bspNodes[n].frontNode # NULL /\ bspNodes[n].backNode # NULL

\* C29 (SpecApp): for every sequence of keys ('n', 't', 'b') and frames,
\* whenever onFrameRender and render take the BSP path
\* (g_bBuildBspTree && g_bRenderUseBsp) bspRoot is non-null and every
\* non-leaf node of the tree has both children.
C29_BspPathHasTree == BspFrame => TreeBuilt

====
